---- MODULE Spec2Model ----
(***************************************************************************)
(* State-machine model of the SO60 quiz bot: the SQLite store              *)
(* (database/db_manager.py), the quiz fan-out and the answer recorder      *)
(* (handlers/quiz_handler.py), the slot administration                     *)
(* (handlers/admin_handler.py) and the APScheduler job set                 *)
(* (scheduler/scheduler.py).                                               *)
(*                                                                         *)
(* Conventions.  A SQL NULL / Python None is the empty tuple <<>> for text *)
(* columns and 0 for integer keys.  A Python date or datetime handed to    *)
(* sqlite3 is stored by the default adapter as ISO-8601 text: dates are    *)
(* kept in the store as tuples of digits and compared as SQLite compares   *)
(* text (lexicographically); a datetime object is Datetime(t), the text    *)
(* the store keeps for it is Text(t), and a SELECT gives back that text,   *)
(* not a datetime object.                                                  *)
(***************************************************************************)
EXTENDS Integers, Sequences, FiniteSets, TLC

\* ------------------------------------------------------------------ bounds
MaxQuestions == 2
MaxDay == 1
MaxNow == 2
MaxTasks == 2
MaxPolls == 3

\* ------------------------------------------------------- static configuration
\* config.GROUP_CONFIGS: the configured group keys, in dict (insertion) order.
GROUP_CONFIGS == <<"group1", "group2">>

\* A key that may occur in a question's explicit target set but is configured nowhere.
UnknownGroup == "groupX"

\* The slot CHECK constraint of the questions table.
QuestionSlots == {"morning", "evening"}

\* Slot names that post_quiz may be called with (default slots and a runtime slot).
SlotNames == {"morning", "evening", "noon"}

Letters == <<"A", "B", "C", "D">>

NULL == <<>>
NoQuestion == 0

\* ------------------------------------------------------------------ sequences
Range(s) == {s[i] : i \in DOMAIN s}

Max(S) == CHOOSE x \in S : \A y \in S : y <= x

Min(S) == CHOOSE x \in S : \A y \in S : x <= y

\* ------------------------------------------------------------------ calendar
\* The civil date of day number n of the model's clock: day 0 is 2024-12-29.
DateOf(n) ==
    IF n <= 2 THEN [year |-> 2024, month |-> 12, day |-> 29 + n]
    ELSE [year |-> 2025, month |-> 1, day |-> n - 2]

\* date.isoformat(), the text the sqlite3 date adapter stores: YYYY-MM-DD as digits.
isoformat(n) ==
    LET d == DateOf(n) IN
    << d.year \div 1000, (d.year \div 100) % 10, (d.year \div 10) % 10, d.year % 10,
       d.month \div 10, d.month % 10, d.day \div 10, d.day % 10 >>

\* SQLite's comparison of two text values of equal length: a < b.
TextLT(a, b) ==
    \E i \in DOMAIN a :
        /\ a[i] < b[i]
        /\ \A j \in 1..(i - 1) : a[j] = b[j]

TextLE(a, b) == a = b \/ TextLT(a, b)

\* A timestamp value: a Python datetime, the text SQLite keeps for it, or NULL.
\* The clock counts half seconds.
Datetime(t) == [kind |-> "datetime", t |-> t]

\* What the sqlite3 adapter stores for a datetime, and what a SELECT gives back
\* (the connection sets no detect_types, so no converter runs): text.
Text(t) == [kind |-> "text", t |-> t]

NullTime == [kind |-> "null", t |-> 0]

\* ISO week of day number n (date.isocalendar()[1]): 2024-12-29 is the Sunday of week 52,
\* 2024-12-30 the Monday of week 1.
isocalendar_week(n) == IF n = 0 THEN 52 ELSE ((n - 1) \div 7) + 1

\* utils/time_utils.get_week_number: calendar year * 100 + ISO week.
get_week_number(n) == DateOf(n).year * 100 + isocalendar_week(n)

\* An elapsed time that would never be below zero.
calculate_time_taken_clamped(posted_time, response_time) ==
    LET d == response_time.t - posted_time.t IN
    IF d >= 0 THEN d \div 2 ELSE 0

\* utils/time_utils.calculate_time_taken: int((response_time - posted_time).total_seconds()),
\* int() truncating toward zero.  Defined for two datetimes only.
calculate_time_taken(posted_time, response_time) ==
    LET d == response_time.t - posted_time.t IN
    IF d >= 0 THEN d \div 2 ELSE 0 - ((0 - d) \div 2)

VARIABLES
    now,            \* the wall clock, in ticks since start
    today,          \* the current day number (get_current_date)
    questions,      \* table questions: question_id -> row
    next_qid,       \* AUTOINCREMENT counter of questions
    quiz_posts,     \* table quiz_posts, in post_id order
    responses,      \* table responses: the set of its rows
    active_quizzes, \* bot_data['active_quizzes']: poll id -> correlation record
    next_poll,      \* the next poll id the transport issues
    tasks,          \* the execution contexts: the post_quiz executions under way
    last_run,       \* the post_quiz execution that returned last, as it was on return
    last_answer,    \* the answer event handled last and how handle_poll_answer ended
    finished,       \* ids of the questions whose post_quiz execution ran to its end
    slots_config,   \* table slots_config, in slot_id order
    scheduler,      \* TRUE once application.bot_data['scheduler'] is set
    jobs,           \* the jobs of the scheduler, as get_jobs() lists them
    refreshed,      \* the last setup_scheduler / refresh_scheduler call: what it read and found
    dirty,          \* TRUE when slots_config has changed since that call
    conv,           \* per admin: state of the /editslots conversation and the menu shown
    user_data,      \* per admin: context.user_data
    board,          \* the leaderboard query made last and the rows it returned
    images          \* columns image_file_id, image_local_path of questions: question_id -> values

quiz_vars == <<now, today, questions, next_qid, quiz_posts, responses,
               active_quizzes, next_poll, tasks, last_run, last_answer, finished>>

slot_vars == <<slots_config, scheduler, jobs, refreshed, dirty, conv, user_data>>

report_vars == <<board>>

image_vars == <<images>>

vars == <<quiz_vars, slot_vars, report_vars, image_vars>>

\* ------------------------------------------------------------------ store: questions
\* The target_groups column: the sentinel 'all' or a JSON array of group keys.
ALL == <<"all">>

\* DatabaseManager.add_question: INSERT with an AUTOINCREMENT id; is_posted defaults to 0.
\* The CHECK constraint on slot makes the INSERT raise for any other slot name.
add_question(correct_option, slot, question_date, scheduled_date, target_groups) ==
    /\ slot \in QuestionSlots
    /\ questions' = [q \in DOMAIN questions \cup {next_qid} |->
                        IF q = next_qid
                        THEN [question_id |-> next_qid,
                              correct_option |-> correct_option,
                              slot |-> slot,
                              date |-> isoformat(question_date),
                              scheduled_date |-> scheduled_date,
                              target_groups |-> target_groups,
                              is_posted |-> 0,
                              posted_time |-> NullTime]
                        ELSE questions[q]]
    /\ next_qid' = next_qid + 1

\* First query of get_next_unposted_question: WHERE slot = ? AND is_posted = 0 AND
\* scheduled_date = today (NULL = x is never true).
ScheduledToday(slot) ==
    {q \in DOMAIN questions :
        /\ questions[q].slot = slot
        /\ questions[q].is_posted = 0
        /\ questions[q].scheduled_date # NULL
        /\ questions[q].scheduled_date = isoformat(today)}

\* A second query that would not look at is_posted.
Backlog_with_posted(slot) ==
    {q \in DOMAIN questions :
        /\ questions[q].slot = slot
        /\ \/ questions[q].scheduled_date = NULL
           \/ TextLE(questions[q].scheduled_date, isoformat(today))}

\* Second query: WHERE slot = ? AND is_posted = 0 AND
\* (scheduled_date IS NULL OR scheduled_date <= today).
Backlog(slot) ==
    {q \in DOMAIN questions :
        /\ questions[q].slot = slot
        /\ questions[q].is_posted = 0
        /\ \/ questions[q].scheduled_date = NULL
           \/ TextLE(questions[q].scheduled_date, isoformat(today))}

\* ORDER BY question_id ASC LIMIT 1.
FirstById(S) == Min(S)

\* ORDER BY question_id ASC LIMIT 1 in the second query as well.
FirstByDateThenId_by_id(S) == Min(S)

\* ORDER BY date ASC, question_id ASC LIMIT 1.
FirstByDateThenId(S) ==
    CHOOSE q \in S : \A r \in S :
        \/ TextLT(questions[q].date, questions[r].date)
        \/ questions[q].date = questions[r].date /\ q <= r

\* A selection made of the second query alone.
get_next_unposted_question_backlog_only(slot) ==
    IF Backlog(slot) # {} THEN FirstByDateThenId(Backlog(slot)) ELSE NoQuestion

\* DatabaseManager.get_next_unposted_question: the id of the row returned, or NoQuestion.
get_next_unposted_question(slot) ==
    IF ScheduledToday(slot) # {} THEN FirstById(ScheduledToday(slot))
    ELSE IF Backlog(slot) # {} THEN FirstByDateThenId(Backlog(slot))
    ELSE NoQuestion

\* An UPDATE that would record the time of posting only.
mark_question_posted_time_only(qs, question_id, posted_time) ==
    [q \in DOMAIN qs |->
        IF q = question_id
        THEN [qs[q] EXCEPT !.posted_time = Text(posted_time)]
        ELSE qs[q]]

\* DatabaseManager.mark_question_posted: UPDATE ... WHERE question_id = ?
\* (no row, no change).  The datetime is stored as text.
mark_question_posted(qs, question_id, posted_time) ==
    [q \in DOMAIN qs |->
        IF q = question_id
        THEN [qs[q] EXCEPT !.is_posted = 1, !.posted_time = Text(posted_time)]
        ELSE qs[q]]

\* ------------------------------------------------------------------ clock
\* Time passes within the day.
Tick ==
    /\ now < MaxNow
    /\ now' = now + 1
    /\ UNCHANGED <<today, questions, next_qid, quiz_posts, responses,
                   active_quizzes, next_poll, tasks, last_run, last_answer, finished>>
    /\ UNCHANGED <<slot_vars, report_vars, image_vars>>

\* Time passes and the date changes.
Midnight ==
    /\ now < MaxNow
    /\ today < MaxDay
    /\ now' = now + 1
    /\ today' = today + 1
    /\ UNCHANGED <<questions, next_qid, quiz_posts, responses,
                   active_quizzes, next_poll, tasks, last_run, last_answer, finished>>
    /\ UNCHANGED <<slot_vars, report_vars, image_vars>>

\* ------------------------------------------------------------------ store: quiz_posts
\* A Post record that would carry the time of its own send.
create_quiz_post_at_send_time(posts, question_id, group_id, poll_id, posted_time) ==
    Append(posts, [post_id |-> Len(posts) + 1,
                   question_id |-> question_id,
                   group_id |-> group_id,
                   poll_id |-> poll_id,
                   posted_time |-> Text(now)])

\* DatabaseManager.create_quiz_post: INSERT INTO quiz_posts; the datetime is stored as text.
create_quiz_post(posts, question_id, group_id, poll_id, posted_time) ==
    Append(posts, [post_id |-> Len(posts) + 1,
                   question_id |-> question_id,
                   group_id |-> group_id,
                   poll_id |-> poll_id,
                   posted_time |-> Text(posted_time)])

\* ------------------------------------------------------------------ post_quiz
\* post_quiz, lines 36-45: 'all' resolves to every configured key, anything else is
\* the parsed JSON array.
groups_to_post(target_groups) ==
    IF target_groups = ALL THEN GROUP_CONFIGS ELSE target_groups

\* A loop without the membership test: the next position, whatever its key.
NextConfigured_no_skip(groups, i) == Min({i, Len(groups) + 1})

\* The for loop of post_quiz from position i on: keys absent from GROUP_CONFIGS are
\* skipped (continue); the position of the next group that is attempted, or
\* Len(groups) + 1 when the loop is over.
NextConfigured(groups, i) ==
    IF \E j \in i..Len(groups) : groups[j] \in Range(GROUP_CONFIGS)
    THEN Min({j \in i..Len(groups) : groups[j] \in Range(GROUP_CONFIGS)})
    ELSE Len(groups) + 1

\* The image columns of a question row: the file id the transport issued (NULL or <<n>>)
\* and the path of the local file (NULL or <<"path">>).  uploads counts the sends that
\* uploaded the local file, writes the UPDATEs of image_file_id made for the question.
NoImage == [image_file_id |-> NULL, image_local_path |-> NULL, uploads |-> 0, writes |-> 0]

\* question['image_file_id'], question['image_local_path'] of a row as the Store has it.
ImageOf(q) == IF q \in DOMAIN images THEN images[q] ELSE NoImage

\* An execution context in which no post_quiz or post_quiz_by_id has run yet; by_id
\* tells the two apart.
IdleTask ==
    [by_id |-> FALSE, slot |-> "", question_id |-> NoQuestion, correct_option |-> "",
     groups |-> <<>>, idx |-> 1, posted_time |-> 0, pc |-> "idle",
     attempted |-> <<>>, sent |-> <<>>, polls |-> <<>>, marks |-> 0, calls |-> 0,
     image_file_id |-> NULL]

\* A post_quiz execution that found nothing to post and returned (lines 32-34).
NothingToPost(slot) ==
    [IdleTask EXCEPT !.slot = slot, !.pc = "done"]

\* A loop that would mark the question posted only when a send has succeeded.
Advance_marking_after_a_send(i, t, qs) ==
    LET j == NextConfigured(t.groups, t.idx + 1) IN
    IF j <= Len(t.groups)
    THEN /\ tasks' = [tasks EXCEPT ![i] = [t EXCEPT !.idx = j, !.pc = "send_body"]]
         /\ questions' = qs
         /\ UNCHANGED <<last_run, finished>>
    ELSE /\ tasks' = [tasks EXCEPT ![i] = IdleTask]
         /\ last_run' = [t EXCEPT !.idx = j, !.pc = "done"]
         /\ questions' = IF t.sent # <<>>
                          THEN mark_question_posted(qs, t.question_id, t.posted_time)
                          ELSE qs
         /\ finished' = finished \cup {t.question_id}

\* The loop of post_quiz has dealt with position t.idx (outcome recorded in t): go on to
\* the next configured group, or leave the loop and mark the question posted (line 75).
Advance(i, t, qs) ==
    LET j == NextConfigured(t.groups, t.idx + 1) IN
    IF j <= Len(t.groups)
    THEN /\ tasks' = [tasks EXCEPT ![i] = [t EXCEPT !.idx = j, !.pc = "send_body"]]
         /\ questions' = qs
         /\ UNCHANGED <<last_run, finished>>
    ELSE /\ tasks' = [tasks EXCEPT ![i] = IdleTask]
         /\ last_run' = [t EXCEPT !.idx = j, !.pc = "done", !.marks = t.marks + 1]
         /\ questions' = mark_question_posted(qs, t.question_id, t.posted_time)
         /\ finished' = finished \cup {t.question_id}

\* A send that would let its exception leave post_quiz: the execution ends there.
SendFailed_propagates(i, t) ==
    /\ tasks' = [tasks EXCEPT ![i] = IdleTask]
    /\ last_run' = [t EXCEPT !.pc = "raised"]
    /\ UNCHANGED <<questions, finished>>

\* post_quiz, lines 71-72: the exception of post_to_group is caught and printed, and the
\* loop goes on with the next group.
SendFailed(i, t) == Advance(i, t, questions)

\* The loop of post_quiz_by_id has dealt with position t.idx: go on to the next
\* configured group (lines 283-287), or return; the question was marked before the loop.
AdvanceById(i, t, qs) ==
    LET j == NextConfigured(t.groups, t.idx + 1) IN
    /\ questions' = qs
    /\ UNCHANGED finished
    /\ IF j <= Len(t.groups)
       THEN /\ tasks' = [tasks EXCEPT ![i] = [t EXCEPT !.idx = j, !.pc = "send_body"]]
            /\ UNCHANGED last_run
       ELSE /\ tasks' = [tasks EXCEPT ![i] = IdleTask]
            /\ last_run' = [t EXCEPT !.idx = j, !.pc = "done"]

\* An except clause that would print and go on with the next group.
Reraise_swallowed(i, t) == AdvanceById(i, t, questions)

\* post_quiz_by_id, lines 304-306: the exception of post_to_group is printed and raised
\* again; the execution ends there.
Reraise(i, t) ==
    /\ tasks' = [tasks EXCEPT ![i] = IdleTask]
    /\ last_run' = [t EXCEPT !.pc = "raised"]
    /\ UNCHANGED <<questions, finished>>

\* post_to_group raised: the except clause of the caller takes over.
Raised(i, t) == IF t.by_id THEN Reraise(i, t) ELSE SendFailed(i, t)

\* post_to_group returned: the loop of the caller goes on.
Returned(i, t) == IF t.by_id THEN AdvanceById(i, t, questions) ELSE Advance(i, t, questions)

\* The context a new execution runs in: the first one that is not in use.
FreeTask == Min({i \in DOMAIN tasks : tasks[i].pc = "idle"})

\* post_quiz(context, slot) from its call to its first await: select the question,
\* resolve the groups, take the fan-out's timestamp, skip unconfigured keys and enter
\* post_to_group for the first configured group (or finish at once).
post_quiz(slot) ==
    /\ LET qid == get_next_unposted_question(slot)
           i == FreeTask IN
       IF qid = NoQuestion
       THEN /\ last_run' = NothingToPost(slot)
            /\ UNCHANGED <<tasks, questions, finished>>
       ELSE LET groups == groups_to_post(questions[qid].target_groups)
                t == [IdleTask EXCEPT !.slot = slot, !.question_id = qid,
                         !.correct_option = questions[qid].correct_option,
                         !.groups = groups, !.idx = 0, !.posted_time = now,
                         !.image_file_id = ImageOf(qid).image_file_id] IN
            Advance(i, t, questions)
    /\ UNCHANGED <<now, today, next_qid, quiz_posts, responses,
                   active_quizzes, next_poll, last_answer>>
    /\ UNCHANGED <<slot_vars, report_vars, image_vars>>

\* post_quiz is called while no other execution is under way.
StartPostQuiz(slot) ==
    /\ \A i \in DOMAIN tasks : tasks[i].pc = "idle"
    /\ post_quiz(slot)

\* post_quiz is called while another execution is suspended at a send (the job of a slot
\* fires during a surprise quiz, or the other way round): the event loop runs it in a
\* context of its own.
StartPostQuizOverlapping(slot) ==
    /\ \E i \in DOMAIN tasks : tasks[i].pc # "idle"
    /\ \E i \in DOMAIN tasks : tasks[i].pc = "idle"
    /\ post_quiz(slot)

\* A marking that would not happen.
mark_before_sends_skipped(qs, question_id, posted_time) == qs

\* post_quiz_by_id, lines 279-280: the question is marked posted with the timestamp of
\* the fan-out before the loop over the groups starts.
mark_before_sends(qs, question_id, posted_time) ==
    mark_question_posted(qs, question_id, posted_time)

\* post_quiz_by_id(context, question_id) from its call to its first await: look the
\* question up (return if there is none), resolve the groups, take the timestamp, mark
\* the question posted and enter post_to_group for the first configured group.
StartPostQuizById(question_id) ==
    /\ \A i \in DOMAIN tasks : tasks[i].pc = "idle"
    /\ next_poll <= MaxPolls
    /\ IF question_id \notin DOMAIN questions
       THEN /\ last_run' = [IdleTask EXCEPT !.by_id = TRUE, !.pc = "done"]
            /\ UNCHANGED <<tasks, questions, finished>>
       ELSE LET groups == groups_to_post(questions[question_id].target_groups)
                t == [IdleTask EXCEPT !.by_id = TRUE,
                         !.slot = questions[question_id].slot,
                         !.question_id = question_id,
                         !.correct_option = questions[question_id].correct_option,
                         !.groups = groups, !.idx = 0, !.posted_time = now,
                         !.marks = 1,
                         !.image_file_id = ImageOf(question_id).image_file_id] IN
            AdvanceById(FreeTask, t, mark_before_sends(questions, question_id, now))
    /\ UNCHANGED <<now, today, next_qid, quiz_posts, responses,
                   active_quizzes, next_poll, last_answer>>
    /\ UNCHANGED <<slot_vars, report_vars, image_vars>>

\* post_to_group, lines 118-138, with the question as this execution read it before its
\* loop: the body is sent from the local file when that row holds no file id and has a
\* local path (the file is taken to exist).
SendsLocalFile(t) ==
    /\ t.image_file_id = NULL
    /\ ImageOf(t.question_id).image_local_path # NULL

\* post_to_group, lines 121-138: the photo was sent from the local file; the transport
\* issued a file id for this upload, and as the row this execution read holds none, the
\* UPDATE writes it to the question.
store_file_id(imgs, question_id) ==
    [imgs EXCEPT ![question_id] =
        [@ EXCEPT !.uploads = @ + 1, !.writes = @ + 1,
                  !.image_file_id = <<imgs[question_id].uploads + 1>>]]

\* post_to_group, lines 109-145: the awaited send of the question body (photo by file id,
\* photo from the local file, or text) returns, or raises into the except clause of the
\* caller.
SendBody(i, ok) ==
    /\ tasks[i].pc = "send_body"
    /\ LET t == tasks[i]
           g == t.groups[t.idx]
           t1 == [t EXCEPT !.attempted = Append(t.attempted, g),
                           !.calls = t.calls + 1] IN
       /\ IF ok
          THEN /\ tasks' = [tasks EXCEPT ![i] = [t1 EXCEPT !.pc = "send_poll"]]
               /\ UNCHANGED <<questions, last_run, finished>>
          ELSE Raised(i, t1)
       /\ images' = IF ok /\ SendsLocalFile(t)
                     THEN store_file_id(images, t.question_id)
                     ELSE images
    /\ UNCHANGED <<now, today, next_qid, quiz_posts, responses,
                   active_quizzes, next_poll, last_answer>>
    /\ UNCHANGED <<slot_vars, report_vars>>

\* The cache entry post_to_group stores for a poll (lines 170-175).
CacheEntry(t, g) ==
    [question_id |-> t.question_id, posted_time |-> Datetime(t.posted_time),
     correct_option |-> t.correct_option, group_id |-> g]

\* post_to_group, lines 147-177: the awaited send_poll returns a poll with a fresh id,
\* the post is recorded in quiz_posts and then in the cache; or send_poll raises into
\* the except clause of the caller.
SendPoll(i, ok) ==
    /\ tasks[i].pc = "send_poll"
    /\ LET t == [tasks[i] EXCEPT !.calls = tasks[i].calls + 1]
           g == t.groups[t.idx] IN
       IF ok
       THEN /\ next_poll' = next_poll + 1
            /\ quiz_posts' = create_quiz_post(quiz_posts, t.question_id, g,
                                              next_poll, t.posted_time)
            /\ active_quizzes' =
                  [p \in DOMAIN active_quizzes \cup {next_poll} |->
                      IF p = next_poll THEN CacheEntry(t, g) ELSE active_quizzes[p]]
            /\ Returned(i, [t EXCEPT !.sent = Append(t.sent, g),
                                     !.polls = Append(t.polls, next_poll)])
       ELSE /\ UNCHANGED <<next_poll, quiz_posts, active_quizzes>>
            /\ Raised(i, t)
    /\ UNCHANGED <<now, today, next_qid, responses, last_answer>>
    /\ UNCHANGED <<slot_vars, report_vars, image_vars>>

\* ------------------------------------------------------------------ answers
Users == {101, 102}

\* user.username or user.first_name
UsernameOf(u) == IF u = 101 THEN "asha" ELSE "ravi"

\* No answer event handled yet.
Handled(u, q, result) ==
    [user_id |-> u, question_id |-> q, result |-> result,
     selected_index |-> -1, correct_option |-> "-"]

NoAnswer == Handled(0, NoQuestion, "none")

\* DatabaseManager.get_post_by_poll_id: the quiz_posts rows with that poll id.
get_post_by_poll_id(poll_id) ==
    {quiz_posts[k] : k \in {j \in DOMAIN quiz_posts : quiz_posts[j].poll_id = poll_id}}

\* A lookup that would never give up: a poll id found nowhere is taken for the poll
\* posted last.
quiz_info_latest_post(poll_id) ==
    IF poll_id \in DOMAIN active_quizzes THEN {active_quizzes[poll_id]}
    ELSE {[question_id |-> post.question_id,
           posted_time |-> post.posted_time,
           correct_option |-> questions[post.question_id].correct_option,
           group_id |-> post.group_id] :
              post \in {r \in (IF get_post_by_poll_id(poll_id) = {} /\ quiz_posts # <<>>
                               THEN {quiz_posts[Len(quiz_posts)]}
                               ELSE get_post_by_poll_id(poll_id)) :
                           r.question_id \in DOMAIN questions}}

\* handle_poll_answer, lines 192-214: the correlation record from the cache, else from
\* quiz_posts joined to questions; the empty set when the poll is unknown (or its
\* question is gone).
quiz_info(poll_id) ==
    IF poll_id \in DOMAIN active_quizzes THEN {active_quizzes[poll_id]}
    ELSE {[question_id |-> post.question_id,
           posted_time |-> post.posted_time,
           correct_option |-> questions[post.question_id].correct_option,
           group_id |-> post.group_id] :
              post \in {r \in get_post_by_poll_id(poll_id) :
                           r.question_id \in DOMAIN questions}}

\* Python's ord and chr on the code points around the option letters.
CodePoints == <<"@", "A", "B", "C", "D", "E">>

ord(c) == 63 + (CHOOSE k \in DOMAIN CodePoints : CodePoints[k] = c)

chr(n) == CodePoints[n - 63]

\* A one-based reading of the option index: chr(ord('A') + selected_index - 1).
selected_option_one_based(selected_index) == chr(ord("A") + selected_index - 1)

\* handle_poll_answer, line 221: chr(ord('A') + selected_index).
selected_option(selected_index) == chr(ord("A") + selected_index)

\* handle_poll_answer, line 224.
is_correct(option, correct_option) == IF option = correct_option THEN 1 ELSE 0

\* A uniqueness that would also look at the group: UNIQUE(user_id, question_id, group_id).
ViolatesUnique_per_group(rows, row) ==
    \E r \in rows : /\ r.user_id = row.user_id
                    /\ r.question_id = row.question_id
                    /\ r.group_id = row.group_id

\* The UNIQUE(user_id, question_id) constraint of the responses table.
ViolatesUnique(rows, row) ==
    \E r \in rows : r.user_id = row.user_id /\ r.question_id = row.question_id

\* DatabaseManager.add_response: the table after the INSERT; an IntegrityError leaves it
\* as it was.
add_response(rows, row) ==
    IF ViolatesUnique(rows, row) THEN rows ELSE rows \cup {row}

\* The boolean add_response returns.
add_response_result(rows, row) == ~ViolatesUnique(rows, row)


\* A retraction that would take the user's Response for the question back.
Retracted_removing(u, question_id) ==
    /\ last_answer' = Handled(u, question_id, "retracted")
    /\ responses' = {r \in responses : ~(r.user_id = u /\ r.question_id = question_id)}

\* handle_poll_answer, lines 216-218: an answer with no option ids is a retracted vote;
\* the handler returns before anything is computed or stored.
Retracted(u, question_id) ==
    /\ last_answer' = Handled(u, question_id, "retracted")
    /\ UNCHANGED responses

\* handle_poll_answer(update, context) for an answer of user u to poll poll_id with the
\* given option ids; it has no await and runs in one piece.
HandlePollAnswer(poll_id, u, option_ids) ==
    /\ LET info == quiz_info(poll_id) IN
       IF info = {}
       THEN /\ last_answer' = Handled(u, NoQuestion, "unknown")
            /\ UNCHANGED responses
       ELSE LET qi == CHOOSE x \in info : TRUE IN
            IF option_ids = <<>>
            THEN Retracted(u, qi.question_id)
            ELSE LET option == selected_option(option_ids[1]) IN
            IF qi.posted_time.kind # "datetime"
            THEN \* response_time - posted_time raises TypeError for a str
                 /\ last_answer' = Handled(u, qi.question_id, "raised")
                 /\ UNCHANGED responses
            ELSE LET row == [user_id |-> u,
                             username |-> UsernameOf(u),
                             question_id |-> qi.question_id,
                             selected_option |-> option,
                             is_correct |-> is_correct(option, qi.correct_option),
                             response_time |-> Text(now),
                             time_taken |-> calculate_time_taken(qi.posted_time, Datetime(now)),
                             week_number |-> get_week_number(today),
                             date |-> isoformat(today),
                             group_id |-> qi.group_id] IN
                 /\ responses' = add_response(responses, row)
                 /\ last_answer' =
                       IF add_response_result(responses, row)
                       THEN [Handled(u, qi.question_id, "inserted")
                                EXCEPT !.selected_index = option_ids[1],
                                       !.correct_option = qi.correct_option]
                       ELSE Handled(u, qi.question_id, "duplicate")
    /\ UNCHANGED <<now, today, questions, next_qid, quiz_posts,
                   active_quizzes, next_poll, tasks, last_run, finished>>
    /\ UNCHANGED <<slot_vars, report_vars, image_vars>>

\* ------------------------------------------------------------------ store: slots_config
\* init_database, lines 41-44: the two default slots.
DefaultSlots ==
    << [slot_id |-> 1, slot_name |-> "morning", hour |-> 9, minute |-> 0, is_active |-> 1],
       [slot_id |-> 2, slot_name |-> "evening", hour |-> 18, minute |-> 0, is_active |-> 1] >>

\* ORDER BY hour ASC, minute ASC; rows with the same time come in rowid order.
SlotBefore(r1, r2) ==
    \/ r1.hour < r2.hour
    \/ r1.hour = r2.hour /\ r1.minute < r2.minute
    \/ r1.hour = r2.hour /\ r1.minute = r2.minute /\ r1.slot_id < r2.slot_id

\* DatabaseManager.get_all_slots on the table cfg: the (active) rows, ordered.
get_all_slots(cfg, active_only) ==
    LET rows == {r \in Range(cfg) : ~active_only \/ r.is_active = 1}
        rank(r) == 1 + Cardinality({x \in rows : SlotBefore(x, r)}) IN
    [k \in 1..Cardinality(rows) |-> CHOOSE r \in rows : rank(r) = k]

\* A uniqueness that would hold among the active rows only.
SlotIntegrityError_active_only(cfg, slot_name, hour, minute) ==
    \/ \E r \in Range(cfg) : r.slot_name = slot_name /\ r.is_active = 1
    \/ hour \notin 0..23
    \/ minute \notin 0..59

\* The constraints an INSERT into slots_config can violate: UNIQUE(slot_name) over all
\* rows, active or not, and the CHECKs on hour and minute.
SlotIntegrityError(cfg, slot_name, hour, minute) ==
    \/ \E r \in Range(cfg) : r.slot_name = slot_name
    \/ hour \notin 0..23
    \/ minute \notin 0..59

\* str.lower, str.strip and str.isalpha on the texts an admin types.
lower(text) == IF text = "Morning" THEN "morning" ELSE text

strip(text) == IF text = " Morning " THEN "Morning" ELSE text

isalpha(text) == text \in {"noon", "morning", "Morning"}

\* DatabaseManager.add_slot: the table after the INSERT of the lower-cased name.
add_slot(cfg, slot_name, hour, minute) ==
    IF SlotIntegrityError(cfg, lower(slot_name), hour, minute) THEN cfg
    ELSE Append(cfg, [slot_id |-> Len(cfg) + 1, slot_name |-> lower(slot_name),
                      hour |-> hour, minute |-> minute, is_active |-> 1])

\* The id add_slot returns: lastrowid, or -1 on IntegrityError.
add_slot_result(cfg, slot_name, hour, minute) ==
    IF SlotIntegrityError(cfg, lower(slot_name), hour, minute) THEN -1 ELSE Len(cfg) + 1

\* DatabaseManager.update_slot: UPDATE ... SET hour, minute WHERE slot_id = ?
update_slot(cfg, slot_id, hour, minute) ==
    [k \in DOMAIN cfg |->
        IF cfg[k].slot_id = slot_id
        THEN [cfg[k] EXCEPT !.hour = hour, !.minute = minute] ELSE cfg[k]]

\* DatabaseManager.delete_slot: UPDATE ... SET is_active = 0 WHERE slot_id = ?
delete_slot(cfg, slot_id) ==
    [k \in DOMAIN cfg |->
        IF cfg[k].slot_id = slot_id THEN [cfg[k] EXCEPT !.is_active = 0] ELSE cfg[k]]

\* rowcount > 0 of update_slot and delete_slot: a row with that id exists.
slot_rowcount(cfg, slot_id) == Cardinality({k \in DOMAIN cfg : cfg[k].slot_id = slot_id})

\* DatabaseManager.get_slot_by_id: the rows with that id, active or not.
get_slot_by_id(cfg, slot_id) == {r \in Range(cfg) : r.slot_id = slot_id}

\* ------------------------------------------------------------------ scheduler
\* id=f'{slot_name}_quiz'
job_id(slot_name) == <<slot_name, "_quiz">>

\* job.id.endswith('_quiz')
endswith_quiz(id) == id[Len(id)] = "_quiz"

\* The job setup_scheduler and refresh_scheduler build for a slot row: its id, its cron
\* trigger and the slot its wrapper posts for.
SlotJob(slot) ==
    [id |-> job_id(slot.slot_name), hour |-> slot.hour, minute |-> slot.minute,
     slot |-> slot.slot_name]

\* scheduler.add_job(..., replace_existing=True).
add_job(js, job) ==
    IF \E k \in DOMAIN js : js[k].id = job.id
    THEN [k \in DOMAIN js |-> IF js[k].id = job.id THEN job ELSE js[k]]
    ELSE Append(js, job)

\* The for loop over the slots read (scheduler.py lines 80-101 and 146-165).
RECURSIVE add_slot_jobs(_, _)
add_slot_jobs(js, slots) ==
    IF slots = <<>> THEN js
    ELSE add_slot_jobs(add_job(js, SlotJob(Head(slots))), Tail(slots))

\* A removal loop that would remove nothing.
remove_quiz_jobs_none(js) == js

\* refresh_scheduler, lines 138-140: remove every job whose id ends in _quiz.
remove_quiz_jobs(js) == SelectSeq(js, LAMBDA j : ~endswith_quiz(j.id))

\* A refresh that would add the jobs of the slots read to those already there.
refreshed_jobs_appending(js, slots) == js \o [k \in DOMAIN slots |-> SlotJob(slots[k])]

\* refresh_scheduler, lines 137-165: the jobs after the call, from those before it and
\* the slots read.
refreshed_jobs(js, slots) == add_slot_jobs(remove_quiz_jobs(js), slots)

\* The questions of the post_quiz executions under way.
RunningIds == {tasks[i].question_id : i \in {k \in DOMAIN tasks : tasks[k].pc # "idle"}}

\* No setup_scheduler or refresh_scheduler call yet.
NoCall == [rows |-> <<>>, repeat |-> FALSE, before |-> <<>>, running |-> {}]

\* setup_scheduler(application): a new scheduler with one job per active slot, started
\* and stored in bot_data.
SetupScheduler ==
    /\ ~scheduler
    /\ LET slots == get_all_slots(slots_config, TRUE) IN
       /\ jobs' = add_slot_jobs(<<>>, slots)
       /\ refreshed' = [rows |-> slots, repeat |-> FALSE, before |-> <<>>,
                        running |-> RunningIds]
    /\ scheduler' = TRUE
    /\ dirty' = FALSE
    /\ UNCHANGED <<slots_config, conv, user_data>>
    /\ UNCHANGED <<quiz_vars, report_vars, image_vars>>

\* refresh_scheduler(application) called when the table is cfg: nothing without a
\* scheduler in bot_data; else the quiz jobs are removed and rebuilt from the active
\* slots read.
refresh_scheduler(cfg) ==
    IF ~scheduler
    THEN /\ UNCHANGED <<jobs, refreshed>>
         /\ dirty' = (dirty \/ cfg # slots_config)
    ELSE LET slots == get_all_slots(cfg, TRUE)
             again == ~dirty /\ cfg = slots_config IN
         /\ jobs' = refreshed_jobs(jobs, slots)
         /\ refreshed' = [rows |-> slots, repeat |-> again,
                          before |-> IF again THEN jobs ELSE <<>>,
                          running |-> RunningIds]
         /\ dirty' = FALSE

\* A handler left the table as cfg and did not get to refresh_scheduler.
no_refresh(cfg) ==
    /\ UNCHANGED <<jobs, refreshed>>
    /\ dirty' = (dirty \/ cfg # slots_config)

\* ------------------------------------------------------------------ /editslots
\* Each handler is an operation of its own: it runs when the conversation of the admin
\* is in the state the handler is registered for, and leaves the conversation in the
\* state it returns.  Updates are handled one after the other, after post_init has set
\* up the scheduler.
\* config.ADMIN_IDS
ADMIN_IDS == {1, 2}

\* No conversation under way, no menu shown.
NoConversation == [state |-> "END", shown |-> FALSE, menu |-> {}]

\* context.user_data after clear(); "" , -1 and 0 stand for an absent key.
EmptyUserData ==
    [new_slot_name |-> "", slot_hour |-> -1, edit_slot_id |-> 0, edit_slot_name |-> ""]

\* What the admins type and press.
NameInputs == {"noon", " Morning ", "n00n"}

NumberInputs == {"12", "24", "30", "60", "x"}

\* int(text.strip()): the number, or -1 for a ValueError.
int(text) ==
    CASE text = "12" -> 12 [] text = "24" -> 24 [] text = "30" -> 30
      [] text = "60" -> 60 [] OTHER -> -1

IsInt(text) == text \in {"12", "24", "30", "60"}

SlotIds(slots) == {slots[k].slot_id : k \in DOMAIN slots}

\* The conversation of admin a moves to state st (the handler's return value); the
\* selection menu is gone unless st is a selection state showing ids.
Goto(a, st, ids) == conv' = [conv EXCEPT ![a].state = st, ![a].menu = ids]

\* cmd_editslots (@admin_only): the slot management menu is sent to the admin.
CmdEditslots(a) ==
    /\ scheduler
    /\ conv[a].state = "END"
    /\ conv' = [conv EXCEPT ![a].shown = TRUE]
    /\ UNCHANGED <<slots_config, scheduler, jobs, refreshed, dirty, user_data>>
    /\ UNCHANGED <<quiz_vars, report_vars, image_vars>>

\* handle_slot_action for the buttons slot_add, slot_edit, slot_delete and slot_close
\* of the menu (the selection states take every callback themselves).
HandleSlotAction(a, action) ==
    /\ scheduler
    /\ conv[a].shown
    /\ conv[a].state \notin {"SELECT_SLOT_TO_EDIT", "SELECT_SLOT_TO_DELETE"}
    /\ LET slots == get_all_slots(slots_config, TRUE) IN
       CASE action = "add" -> Goto(a, "WAITING_SLOT_NAME", {})
         [] action = "edit" ->
               IF slots = <<>> THEN Goto(a, "END", {})
               ELSE Goto(a, "SELECT_SLOT_TO_EDIT", SlotIds(slots))
         [] action = "delete" ->
               IF slots = <<>> THEN Goto(a, "END", {})
               ELSE IF Len(slots) = 1 THEN Goto(a, "END", {})
               ELSE Goto(a, "SELECT_SLOT_TO_DELETE", SlotIds(slots))
         [] action = "close" -> Goto(a, "END", {})
    /\ UNCHANGED <<slots_config, scheduler, jobs, refreshed, dirty, user_data>>
    /\ UNCHANGED <<quiz_vars, report_vars, image_vars>>

\* receive_slot_name: the name is stripped and lower-cased; letters only.
ReceiveSlotName(a, text) ==
    /\ conv[a].state = "WAITING_SLOT_NAME"
    /\ LET slot_name == lower(strip(text)) IN
       IF ~isalpha(slot_name)
       THEN UNCHANGED <<conv, user_data>>
       ELSE /\ user_data' = [user_data EXCEPT ![a].new_slot_name = slot_name]
            /\ Goto(a, "WAITING_SLOT_HOUR", {})
    /\ UNCHANGED <<slots_config, scheduler, jobs, refreshed, dirty>>
    /\ UNCHANGED <<quiz_vars, report_vars, image_vars>>

\* A handler that would take any integer for the hour.
ReceiveSlotHour_unchecked(a, text) ==
    /\ conv[a].state = "WAITING_SLOT_HOUR"
    /\ IF ~IsInt(text)
       THEN UNCHANGED <<conv, user_data>>
       ELSE /\ user_data' = [user_data EXCEPT ![a].slot_hour = int(text)]
            /\ Goto(a, "WAITING_SLOT_MINUTE", {})
    /\ UNCHANGED <<slots_config, scheduler, jobs, refreshed, dirty>>
    /\ UNCHANGED <<quiz_vars, report_vars, image_vars>>

\* receive_slot_hour: an integer in 0..23, else the admin is asked again.
ReceiveSlotHour(a, text) ==
    /\ conv[a].state = "WAITING_SLOT_HOUR"
    /\ IF ~IsInt(text) \/ int(text) < 0 \/ int(text) > 23
       THEN UNCHANGED <<conv, user_data>>
       ELSE /\ user_data' = [user_data EXCEPT ![a].slot_hour = int(text)]
            /\ Goto(a, "WAITING_SLOT_MINUTE", {})
    /\ UNCHANGED <<slots_config, scheduler, jobs, refreshed, dirty>>
    /\ UNCHANGED <<quiz_vars, report_vars, image_vars>>

\* receive_slot_minute after a valid minute: the slot is inserted; a duplicate name ends
\* the conversation without a refresh; else the admin is told and the scheduler
\* refreshed.  When the reply raises, the handler ends there.
receive_slot_minute(a, minute, replied) ==
    LET slot_name == user_data[a].new_slot_name
        hour == user_data[a].slot_hour
        cfg == add_slot(slots_config, slot_name, hour, minute)
        slot_id == add_slot_result(slots_config, slot_name, hour, minute) IN
    /\ slots_config' = cfg
    /\ IF ~replied
       THEN /\ no_refresh(cfg)
            /\ UNCHANGED <<conv, user_data>>
       ELSE /\ IF slot_id = -1 THEN no_refresh(cfg) ELSE refresh_scheduler(cfg)
            /\ user_data' = [user_data EXCEPT ![a] = EmptyUserData]
            /\ Goto(a, "END", {})

\* update_slot_timing after a valid minute: the row is updated; on success the admin is
\* told and the scheduler refreshed.  A missing edit_slot_id is a KeyError.
update_slot_timing(a, minute, replied) ==
    LET slot_id == user_data[a].edit_slot_id
        hour == user_data[a].slot_hour
        cfg == update_slot(slots_config, slot_id, hour, minute)
        success == slot_rowcount(slots_config, slot_id) > 0 IN
    IF slot_id = 0
    THEN UNCHANGED <<slots_config, jobs, refreshed, dirty, conv, user_data>>
    ELSE /\ slots_config' = cfg
         /\ IF ~replied
            THEN /\ no_refresh(cfg)
                 /\ UNCHANGED <<conv, user_data>>
            ELSE /\ IF success THEN refresh_scheduler(cfg) ELSE no_refresh(cfg)
                 /\ user_data' = [user_data EXCEPT ![a] = EmptyUserData]
                 /\ Goto(a, "END", {})

\* A text message in state WAITING_SLOT_MINUTE (bot.py line 275): receive_slot_minute
\* if user_data holds new_slot_name, else update_slot_timing; both want an integer in
\* 0..59 and ask again otherwise.
ReceiveSlotMinute(a, text, replied) ==
    /\ conv[a].state = "WAITING_SLOT_MINUTE"
    /\ IF ~IsInt(text) \/ int(text) < 0 \/ int(text) > 59
       THEN UNCHANGED <<slots_config, jobs, refreshed, dirty, conv, user_data>>
       ELSE IF user_data[a].new_slot_name # ""
            THEN receive_slot_minute(a, int(text), replied)
            ELSE update_slot_timing(a, int(text), replied)
    /\ UNCHANGED scheduler
    /\ UNCHANGED <<quiz_vars, report_vars, image_vars>>

\* The callback data of the buttons of a selection menu.
MenuData(prefix, ids) == {<<"slot_close", 0>>} \cup {<<prefix, id>> : id \in ids}

\* select_slot_to_edit: the chosen slot is remembered and the hour asked for.
SelectSlotToEdit(a, data) ==
    /\ conv[a].state = "SELECT_SLOT_TO_EDIT"
    /\ IF data[1] = "slot_close"
       THEN /\ Goto(a, "END", {})
            /\ UNCHANGED user_data
       ELSE LET slot == get_slot_by_id(slots_config, data[2]) IN
            IF slot = {}
            THEN /\ Goto(a, "END", {})
                 /\ UNCHANGED user_data
            ELSE /\ user_data' = [user_data EXCEPT
                                     ![a].edit_slot_id = data[2],
                                     ![a].edit_slot_name = (CHOOSE r \in slot : TRUE).slot_name]
                 /\ Goto(a, "WAITING_SLOT_HOUR", {})
    /\ UNCHANGED <<slots_config, scheduler, jobs, refreshed, dirty>>
    /\ UNCHANGED <<quiz_vars, report_vars, image_vars>>

\* select_slot_to_delete: the chosen slot is deactivated, the admin told and the
\* scheduler refreshed.  When the edit of the message raises, the handler ends there.
SelectSlotToDelete(a, data, replied) ==
    /\ conv[a].state = "SELECT_SLOT_TO_DELETE"
    /\ IF data[1] = "slot_close"
       THEN /\ Goto(a, "END", {})
            /\ UNCHANGED <<slots_config, jobs, refreshed, dirty>>
       ELSE LET slot_id == data[2]
                cfg == delete_slot(slots_config, slot_id)
                success == slot_rowcount(slots_config, slot_id) > 0 IN
            IF get_slot_by_id(slots_config, slot_id) = {}
            THEN /\ Goto(a, "END", {})
                 /\ UNCHANGED <<slots_config, jobs, refreshed, dirty>>
            ELSE /\ slots_config' = cfg
                 /\ IF ~replied
                    THEN /\ no_refresh(cfg)
                         /\ UNCHANGED conv
                    ELSE /\ IF success THEN refresh_scheduler(cfg) ELSE no_refresh(cfg)
                         /\ Goto(a, "END", {})
    /\ UNCHANGED <<scheduler, user_data>>
    /\ UNCHANGED <<quiz_vars, report_vars, image_vars>>

\* cancel_slot_edit, the /cancel fallback of the conversation.
CancelSlotEdit(a) ==
    /\ conv[a].state # "END"
    /\ user_data' = [user_data EXCEPT ![a] = EmptyUserData]
    /\ Goto(a, "END", {})
    /\ UNCHANGED <<slots_config, scheduler, jobs, refreshed, dirty>>
    /\ UNCHANGED <<quiz_vars, report_vars, image_vars>>

\* ------------------------------------------------------------------ leaderboards
\* config.LEADERBOARD_SIZE
LEADERBOARD_SIZE == 5

\* No leaderboard query yet.  A global query has the group "".
NoBoard == [period |-> "none", day |-> 0, group_id |-> "", rows |-> <<>>]

\* SUM(column) over the rows of one group of the GROUP BY.
RECURSIVE SUM(_, _)
SUM(rows, column) ==
    IF rows = {} THEN 0
    ELSE LET r == CHOOSE x \in rows : TRUE IN r[column] + SUM(rows \ {r}, column)

\* SELECT user_id, username, SUM(is_correct) as score, SUM(time_taken) as total_time
\* ... GROUP BY user_id, username: one row per (user_id, username) pair.
GroupBy(rows) ==
    {[user_id |-> k[1], username |-> k[2],
      score |-> SUM({r \in rows : r.user_id = k[1] /\ r.username = k[2]}, "is_correct"),
      total_time |-> SUM({r \in rows : r.user_id = k[1] /\ r.username = k[2]}, "time_taken")] :
         k \in {<<r.user_id, r.username>> : r \in rows}}

\* An ordering by the time alone: ORDER BY total_time ASC.
OrderedBefore_time_only(e1, e2) == e1.total_time < e2.total_time

\* ORDER BY score DESC, total_time ASC: e1 has to come before e2.
OrderedBefore(e1, e2) ==
    \/ e1.score > e2.score
    \/ e1.score = e2.score /\ e1.total_time < e2.total_time

\* The orders the ORDER BY allows for a set of result rows: rows equal in both keys
\* come in any order.
RECURSIVE OrderBy(_)
OrderBy(E) ==
    IF E = {} THEN {<<>>}
    ELSE UNION {{<<e>> \o rest : rest \in OrderBy(E \ {e})} :
                   e \in {x \in E : \A y \in E : ~OrderedBefore(y, x)}}

\* A query without its LIMIT clause.
Limit_none(s, limit) == s

\* LIMIT ?
Limit(s, limit) == SubSeq(s, 1, Min({limit, Len(s)}))

\* A per-group filter that would let every group through.
InGroup_any(rows, group_id) == rows

\* AND group_id = ?
InGroup(rows, group_id) == {r \in rows : r.group_id = group_id}

\* The results a leaderboard SELECT may return for the rows its WHERE clause keeps.
Select(rows, limit) == {Limit(s, limit) : s \in OrderBy(GroupBy(rows))}

\* DatabaseManager.get_daily_leaderboard: WHERE date = ? (the date bound as ISO text).
get_daily_leaderboard(target_date, limit) ==
    Select({r \in responses : r.date = isoformat(target_date)}, limit)

\* DatabaseManager.get_weekly_leaderboard: WHERE week_number = ?
get_weekly_leaderboard(week_number, limit) ==
    Select({r \in responses : r.week_number = week_number}, limit)

\* DatabaseManager.get_daily_leaderboard_by_group: WHERE date = ? AND group_id = ?
get_daily_leaderboard_by_group(target_date, group_id, limit) ==
    Select(InGroup({r \in responses : r.date = isoformat(target_date)}, group_id), limit)

\* DatabaseManager.get_weekly_leaderboard_by_group: WHERE week_number = ? AND group_id = ?
get_weekly_leaderboard_by_group(week_number, group_id, limit) ==
    Select(InGroup({r \in responses : r.week_number = week_number}, group_id), limit)

\* utils/leaderboard: the four leaderboards, each asked for LEADERBOARD_SIZE rows; the
\* weekly ones for the week of the given day, as the reports do.
leaderboard(period, day, group_id) ==
    IF period = "daily"
    THEN IF group_id = ""
         THEN get_daily_leaderboard(day, LEADERBOARD_SIZE)
         ELSE get_daily_leaderboard_by_group(day, group_id, LEADERBOARD_SIZE)
    ELSE IF group_id = ""
         THEN get_weekly_leaderboard(get_week_number(day), LEADERBOARD_SIZE)
         ELSE get_weekly_leaderboard_by_group(get_week_number(day), group_id,
                                              LEADERBOARD_SIZE)

\* A report asks for a leaderboard and gets its rows.
GetLeaderboard(period, day, group_id) ==
    /\ \E rows \in leaderboard(period, day, group_id) :
          board' = [period |-> period, day |-> day, group_id |-> group_id, rows |-> rows]
    /\ UNCHANGED <<quiz_vars, slot_vars, image_vars>>

\* handle_poll_answer, lines 216-250, for an answer that has been correlated to
\* question q posted in group g: user u, shown as username, picks the option at
\* selected_index, seconds after the post, on the given day.  The reports come after
\* the answers.
RecordAnswer(u, username, q, selected_index, seconds, day, g) ==
    /\ board = NoBoard
    /\ LET option == selected_option(selected_index)
           row == [user_id |-> u,
                   username |-> username,
                   question_id |-> q,
                   selected_option |-> option,
                   is_correct |-> is_correct(option, "C"),
                   response_time |-> Text(now),
                   time_taken |-> seconds,
                   week_number |-> get_week_number(day),
                   date |-> isoformat(day),
                   group_id |-> g] IN
       /\ ~ViolatesUnique(responses, row)
       /\ responses' = add_response(responses, row)
    /\ UNCHANGED <<now, today, questions, next_qid, quiz_posts, active_quizzes,
                   next_poll, tasks, last_run, last_answer, finished>>
    /\ UNCHANGED <<slot_vars, report_vars, image_vars>>

\* ------------------------------------------------------------------ specifications
\* The values of target_groups the model stores.
TargetGroupValues == {ALL, <<"groupX", "group1">>, <<"groupX">>}

\* A question is stored through add_question with arguments from the given sets.
\* save_quiz stores it with question_date = today, no scheduled date and 'all'.
AddQuestion(Cs, Ss, Ds, SDs, TGs) ==
    /\ next_qid <= MaxQuestions
    /\ \E c \in Cs, s \in Ss, d \in Ds, sd \in SDs, tg \in TGs :
          add_question(c, s, d, sd, tg)
    /\ UNCHANGED <<now, today, quiz_posts, responses,
                   active_quizzes, next_poll, tasks, last_run, last_answer, finished>>
    /\ UNCHANGED <<slot_vars, report_vars, image_vars>>

Init ==
    /\ now = 0
    /\ today = 0
    /\ questions = <<>>
    /\ next_qid = 1
    /\ quiz_posts = <<>>
    /\ responses = {}
    /\ active_quizzes = <<>>
    /\ next_poll = 1
    /\ tasks = [i \in 1..MaxTasks |-> IdleTask]
    /\ last_run = IdleTask
    /\ last_answer = NoAnswer
    /\ finished = {}
    /\ slots_config = DefaultSlots
    /\ scheduler = FALSE
    /\ jobs = <<>>
    /\ refreshed = NoCall
    /\ dirty = FALSE
    /\ conv = [a \in ADMIN_IDS |-> NoConversation]
    /\ user_data = [a \in ADMIN_IDS |-> EmptyUserData]
    /\ board = NoBoard
    /\ images = <<>>

\* The fan-out: questions of both default slots and every kind of target set, posted by
\* post_quiz executions (one at a time) whose sends succeed or fail, while time passes.
Next ==
    \/ Tick
    \/ AddQuestion({"C"}, QuestionSlots, {today}, {NULL}, TargetGroupValues)
    \/ \E s \in SlotNames : StartPostQuiz(s)
    \/ \E i \in 1..MaxTasks, ok \in BOOLEAN : SendBody(i, ok)
    \/ \E i \in 1..MaxTasks, ok \in BOOLEAN : SendPoll(i, ok)

Spec == Init /\ [][Next]_vars

\* The selection: questions of both slots with any creation date and any scheduled date
\* (none, past, today, later), targeted at no configured group so that a post_quiz run
\* ends where it starts, over several days.
ScheduledDateValues == {NULL} \cup {isoformat(d) : d \in 0..MaxDay + 1}

NextSelect ==
    \/ Midnight
    \/ AddQuestion({"C"}, QuestionSlots, 0..MaxDay, ScheduledDateValues, {<<UnknownGroup>>})
    \/ \E s \in SlotNames : StartPostQuiz(s)

SpecSelect == Init /\ [][NextSelect]_vars

\* The buttons of the slot menu an admin presses: the first admin all of them, any
\* other admin those that remove a slot.
MenuButtons(a) == IF a = 1 THEN {"add", "edit", "delete", "close"} ELSE {"delete", "close"}

\* The slot administration: the scheduler is set up at start, then the admins go
\* through the /editslots conversation, each in a private chat; every reply gets
\* through.
NextSlots ==
    \/ SetupScheduler
    \/ \E a \in ADMIN_IDS : CmdEditslots(a)
    \/ \E a \in ADMIN_IDS : \E action \in MenuButtons(a) : HandleSlotAction(a, action)
    \/ \E a \in ADMIN_IDS, text \in NameInputs : ReceiveSlotName(a, text)
    \/ \E a \in ADMIN_IDS, text \in NumberInputs : ReceiveSlotHour(a, text)
    \/ \E a \in ADMIN_IDS, text \in NumberInputs : ReceiveSlotMinute(a, text, TRUE)
    \/ \E a \in ADMIN_IDS : \E data \in MenuData("edit_", conv[a].menu) :
          SelectSlotToEdit(a, data)
    \/ \E a \in ADMIN_IDS : \E data \in MenuData("delete_", conv[a].menu) :
          SelectSlotToDelete(a, data, TRUE)
    \/ \E a \in ADMIN_IDS : CancelSlotEdit(a)

SpecSlots == Init /\ [][NextSlots]_vars

\* The polls an answer event may name: those issued so far and one that never was.
PollIds == 1..next_poll

\* A user votes only in polls of the groups the user belongs to; a poll the bot
\* did not post (or no longer knows) can come from anyone.
Membership == [u \in Users |-> IF u = 101 THEN {"group1", "group2"} ELSE {"group1"}]

PollGroup(poll_id) == {r.group_id : r \in {x \in Range(quiz_posts) : x.poll_id = poll_id}}

PollAnswers ==
    \E p \in PollIds, u \in Users, o \in {<<>>, <<0>>, <<1>>, <<2>>, <<3>>} :
        /\ PollGroup(p) \subseteq Membership[u]
        /\ HandlePollAnswer(p, u, o)

\* The answer recorder: questions of one slot posted to all groups, answered by the users.
NextAnswer ==
    \/ AddQuestion({"C"}, {"morning"}, {today}, {NULL}, {ALL})
    \/ StartPostQuiz("morning")
    \/ \E i \in 1..MaxTasks : SendBody(i, TRUE)
    \/ \E i \in 1..MaxTasks : SendPoll(i, TRUE)
    \/ PollAnswers

SpecAnswer == Init /\ [][NextAnswer]_vars

\* ------------------------------------------------------------------ claims on answers
ResponsesOf(rows, u, q) == {r \in rows : r.user_id = u /\ r.question_id = q}

\* C1: the store holds at most one Response per (user id, question id); when a user who
\* already has a Response for a question answers it again (another option, or the poll
\* of another group), add_response returns False, nothing is raised and the stored
\* Response stays exactly as it was.
C1_OneResponsePerUserAndQuestion ==
    /\ [](\A r1, r2 \in responses :
            (r1.user_id = r2.user_id /\ r1.question_id = r2.question_id) => r1 = r2)
    /\ [][(/\ <<responses, last_answer>>' # <<responses, last_answer>>
           /\ last_answer'.result \in {"inserted", "duplicate"}
           /\ ResponsesOf(responses, last_answer'.user_id, last_answer'.question_id) # {})
              => /\ last_answer'.result = "duplicate"
                 /\ responses' = responses]_vars

\* A second answer of user 101 to question 1 was turned down; the stored Response is the
\* one given through the poll of group2, and other users and questions have theirs.
C1_Witness ==
    /\ last_answer = Handled(101, 1, "duplicate")
    /\ \E r \in responses : /\ r.user_id = 101 /\ r.question_id = 1
                            /\ r.group_id = "group2" /\ r.selected_option = "B"
    /\ \E r \in responses : r.user_id = 102 /\ r.question_id = 1
    /\ \E r \in responses : r.user_id = 101 /\ r.question_id = 2

\* C2: an accepted answer with selected index i in 0..3 stores the i-th of the letters
\* A, B, C, D, and is_correct is 1 exactly when that letter is the resolved correct
\* option of the Question, 0 otherwise.
C2_LetterAndCorrectness ==
    last_answer.result = "inserted" =>
        /\ last_answer.selected_index \in 0..3
        /\ \E r \in ResponsesOf(responses, last_answer.user_id, last_answer.question_id) :
              /\ r.selected_option = Letters[last_answer.selected_index + 1]
              /\ r.is_correct = (IF Letters[last_answer.selected_index + 1]
                                       = last_answer.correct_option THEN 1 ELSE 0)

\* The last accepted answer chose index 2 of a Question whose correct option is C, and
\* an answer with index 0 to the same Question is stored as wrong.
C2_Witness ==
    /\ last_answer.result = "inserted"
    /\ last_answer.selected_index = 2
    /\ last_answer.correct_option = "C"
    /\ \E r \in ResponsesOf(responses, last_answer.user_id, last_answer.question_id) :
          r.selected_option = "C" /\ r.is_correct = 1
    /\ \E r \in responses : /\ r.question_id = last_answer.question_id
                            /\ r.selected_option = "A" /\ r.is_correct = 0

\* ------------------------------------------------------------------ claims on post_quiz
\* The quiz_posts rows of a question, and the cache entries of a question, as
\* (group, poll) pairs.
PostsOf(q) == {<<r.group_id, r.poll_id>> : r \in {x \in Range(quiz_posts) : x.question_id = q}}

CachedOf(q) ==
    {<<active_quizzes[p].group_id, p>> :
        p \in {x \in DOMAIN active_quizzes : active_quizzes[x].question_id = q}}

\* The configured keys of a resolved list of groups, in order.
ConfiguredOf(groups) == SelectSeq(groups, LAMBDA g : g \in Range(GROUP_CONFIGS))

\* C4: once post_quiz has selected a Question for a slot and run to completion, the
\* Question is marked posted and no later get_next_unposted_question returns it.
C4_PostedNeverSelectedAgain ==
    \A q \in finished :
        /\ questions[q].is_posted = 1
        /\ \A s \in SlotNames : get_next_unposted_question(s) # q

\* Question 1 has been posted by a completed run and the next selection for its slot
\* is question 2.
C4_Witness ==
    /\ 1 \in finished
    /\ 2 \in DOMAIN questions
    /\ get_next_unposted_question(questions[1].slot) = 2

\* C5: a post_quiz run that selected a Question attempts every configured group of its
\* target set whatever the outcome of the earlier sends, raises nothing, ends with a
\* quiz_posts record and a cache entry for exactly the polls that were sent, and marks
\* the Question posted exactly once.
C5_FailureDoesNotStopFanOut ==
    last_run.question_id # NoQuestion =>
        /\ last_run.pc = "done"
        /\ last_run.attempted = ConfiguredOf(last_run.groups)
        /\ last_run.marks = 1
        /\ questions[last_run.question_id].is_posted = 1
        /\ PostsOf(last_run.question_id) =
              {<<last_run.sent[k], last_run.polls[k]>> : k \in DOMAIN last_run.sent}
        /\ CachedOf(last_run.question_id) = PostsOf(last_run.question_id)

\* A run for an 'all' Question failed in group1 and succeeded in group2.
C5_Witness ==
    /\ last_run.pc = "done"
    /\ last_run.groups = GROUP_CONFIGS
    /\ last_run.attempted = <<"group1", "group2">>
    /\ last_run.sent = <<"group2">>
    /\ Cardinality(PostsOf(last_run.question_id)) = 1
    /\ questions[last_run.question_id].is_posted = 1

\* The unposted Questions of a slot that are unscheduled or scheduled on or before today.
Eligible(slot) ==
    {q \in DOMAIN questions :
        /\ questions[q].slot = slot
        /\ questions[q].is_posted = 0
        /\ \/ questions[q].scheduled_date = NULL
           \/ TextLE(questions[q].scheduled_date, isoformat(today))}

\* C10: when a slot has no eligible Question, post_quiz for it returns without raising,
\* sends nothing and leaves questions, quiz_posts, responses and the cache unchanged.
C10_NothingToPost ==
    [][\A s \in SlotNames :
          (Eligible(s) = {} /\ StartPostQuiz(s))
              => /\ last_run' = NothingToPost(s)
                 /\ UNCHANGED <<questions, quiz_posts, responses, active_quizzes,
                                next_poll, tasks>>]_vars

\* A run for the morning slot found nothing although the slot has a Question: it is
\* already posted, with a post on record.
C10_Witness ==
    /\ last_run = NothingToPost("morning")
    /\ \E q \in DOMAIN questions : questions[q].slot = "morning"
    /\ \A q \in DOMAIN questions : questions[q].slot = "morning" => questions[q].is_posted = 1
    /\ quiz_posts # <<>>

\* ------------------------------------------------------------------ claims on selection
\* date.fromisoformat: the day an ISO text stands for.
fromisoformat(text) == CHOOSE n \in 0..MaxDay + 2 : isoformat(n) = text

\* The unposted Questions of a slot whose scheduled date is today.
DueToday(slot) ==
    {q \in DOMAIN questions :
        /\ questions[q].slot = slot
        /\ questions[q].is_posted = 0
        /\ questions[q].scheduled_date # NULL
        /\ fromisoformat(questions[q].scheduled_date) = today}

\* The unposted Questions of a slot that are unscheduled or scheduled on or before today.
DueOrUnscheduled(slot) ==
    {q \in DOMAIN questions :
        /\ questions[q].slot = slot
        /\ questions[q].is_posted = 0
        /\ \/ questions[q].scheduled_date = NULL
           \/ fromisoformat(questions[q].scheduled_date) <= today}

\* C3: if a slot has an unposted Question scheduled for today,
\* get_next_unposted_question returns one of those, even when an unscheduled unposted
\* Question with an earlier creation date or a lower id exists for the slot.
C3_ScheduledTodayFirst ==
    \A s \in SlotNames :
        DueToday(s) # {} => get_next_unposted_question(s) \in DueToday(s)

\* The last run selected question 2, scheduled for today, although the unscheduled
\* question 1 of the same slot, created a day earlier, is still unposted.
C3_Witness ==
    /\ last_run.question_id = 2
    /\ questions[2].scheduled_date = isoformat(today)
    /\ questions[1].slot = questions[2].slot
    /\ questions[1].is_posted = 0
    /\ questions[1].scheduled_date = NULL
    /\ fromisoformat(questions[1].date) < fromisoformat(questions[2].date)

\* C9: when no unposted Question of a slot is scheduled for today, the selection is the
\* least by (creation date, id) among the unposted Questions of the slot that are
\* unscheduled or scheduled on or before today (none when there is no such Question);
\* never a posted one, one of another slot, or one scheduled later.
C9_BacklogOrder ==
    \A s \in SlotNames :
        DueToday(s) = {} =>
            LET q == get_next_unposted_question(s) IN
            IF DueOrUnscheduled(s) = {} THEN q = NoQuestion
            ELSE /\ q \in DueOrUnscheduled(s)
                 /\ \A r \in DueOrUnscheduled(s) :
                       \/ fromisoformat(questions[q].date) < fromisoformat(questions[r].date)
                       \/ /\ questions[q].date = questions[r].date
                          /\ q <= r

\* The last run selected question 2, scheduled in the past and created a day before
\* question 1, which is unscheduled, of the same slot and still unposted.
C9_Witness ==
    /\ last_run.question_id = 2
    /\ questions[2].scheduled_date # NULL
    /\ fromisoformat(questions[2].scheduled_date) < today
    /\ questions[1].slot = questions[2].slot
    /\ questions[1].is_posted = 0
    /\ questions[1].scheduled_date = NULL
    /\ fromisoformat(questions[2].date) < fromisoformat(questions[1].date)

\* ------------------------------------------------------------------ claims on slots
ActiveSlots == {r \in Range(slots_config) : r.is_active = 1}

JobIds == {jobs[k].id : k \in DOMAIN jobs}

\* C6: in every reachable state at least one slot is active: a deletion that would leave
\* no active slot is rejected, also when it is chosen from a delete menu that was shown
\* while two or more slots were active.
C6_AtLeastOneActiveSlot == ActiveSlots # {}

\* C7: a refresh_scheduler call that follows a setup_scheduler or refresh_scheduler call
\* with no change to slots_config in between leaves the same slot jobs: none
\* duplicated, none missing.
C7_RefreshIdempotent ==
    refreshed.repeat =>
        /\ Range(jobs) = Range(refreshed.before)
        /\ Len(jobs) = Len(refreshed.before)
        /\ Cardinality(JobIds) = Len(jobs)

\* The scheduler was refreshed again over an unchanged table that holds a runtime slot
\* and a deactivated one.
C7_Witness ==
    /\ refreshed.repeat
    /\ Len(jobs) = 2
    /\ job_id("noon") \in JobIds
    /\ \E r \in Range(slots_config) : r.is_active = 0

\* C8: after setup_scheduler or refresh_scheduler has returned, the jobs whose id ends in
\* _quiz are exactly one per active slots_config row read in that call, with the
\* row's hour, minute and slot name; no job of an inactive slot, no stale time.
C8_JobsMatchActiveSlots ==
    /\ [](scheduler =>
            /\ Len(jobs) = Len(refreshed.rows)
            /\ \A r \in Range(refreshed.rows) :
                  Cardinality({k \in DOMAIN jobs : jobs[k].id = job_id(r.slot_name)}) = 1
            /\ \A k \in DOMAIN jobs :
                  /\ endswith_quiz(jobs[k].id)
                  /\ \E r \in Range(refreshed.rows) :
                        /\ jobs[k].id = job_id(r.slot_name)
                        /\ jobs[k].slot = r.slot_name
                        /\ jobs[k].hour = r.hour
                        /\ jobs[k].minute = r.minute)
    /\ [][refreshed' # refreshed =>
            Range(refreshed'.rows) = {r \in Range(slots_config') : r.is_active = 1}]_vars

\* After an edit of the morning slot and the removal of the evening slot the scheduler
\* holds the one job of the morning slot at its new time.
C8_Witness ==
    /\ scheduler
    /\ ~dirty
    /\ Len(jobs) = 1
    /\ jobs[1] = [id |-> job_id("morning"), hour |-> 12, minute |-> 30, slot |-> "morning"]
    /\ \E r \in Range(slots_config) : r.slot_name = "evening" /\ r.is_active = 0

\* ------------------------------------------------------------------ restart
\* The process stops and starts again: bot_data (the poll cache, the scheduler handle),
\* user_data, the conversations and the executions under way are gone; the tables stay.
Restart ==
    /\ active_quizzes' = <<>>
    /\ tasks' = [i \in 1..MaxTasks |-> IdleTask]
    /\ scheduler' = FALSE
    /\ jobs' = <<>>
    /\ refreshed' = NoCall
    /\ dirty' = FALSE
    /\ conv' = [a \in ADMIN_IDS |-> NoConversation]
    /\ user_data' = [a \in ADMIN_IDS |-> EmptyUserData]
    /\ UNCHANGED <<now, today, questions, next_qid, quiz_posts, responses,
                   next_poll, last_run, last_answer, finished, slots_config>>
    /\ UNCHANGED <<report_vars, image_vars>>

\* The option ids an answer event carries: none (a retracted vote) or one index.
OptionIds == {<<>>, <<0>>, <<2>>}

\* Answers across restarts: questions posted to one group while time passes, the
\* process restarting at any moment, a user answering polls known or unknown.
NextRestart ==
    \/ Tick
    \/ AddQuestion({"C"}, {"morning"}, {today}, {NULL}, {<<"group1">>})
    \/ StartPostQuiz("morning")
    \/ \E i \in 1..MaxTasks : SendBody(i, TRUE)
    \/ \E i \in 1..MaxTasks : SendPoll(i, TRUE)
    \/ Restart
    \/ \E p \in PollIds, o \in OptionIds : HandlePollAnswer(p, 101, o)

SpecRestart == Init /\ [][NextRestart]_vars

\* ------------------------------------------------------------------ claims on the fallback
\* C11: an answer whose poll id is neither in the cache nor in quiz_posts is discarded:
\* the handler returns without raising, no Response is inserted and neither the tables
\* nor the cache change.
C11_UnknownPollDiscarded ==
    [][\A p \in PollIds, u \in Users, o \in OptionIds :
          (/\ p \notin DOMAIN active_quizzes
           /\ PollGroup(p) = {}
           /\ HandlePollAnswer(p, u, o))
          => /\ last_answer' = Handled(u, NoQuestion, "unknown")
             /\ UNCHANGED <<questions, quiz_posts, responses, active_quizzes>>]_vars

\* An unknown poll was answered after polls had been posted and answered, and the
\* cache had been emptied.
C11_Witness ==
    /\ last_answer.result = "unknown"
    /\ quiz_posts # <<>>
    /\ responses # {}
    /\ active_quizzes = <<>>

\* C12: an answer to a poll that is absent from the cache but present in quiz_posts
\* inserts the Response the cache path would insert: the Post's question id and group
\* key, correctness against the Question's correct option, and the seconds elapsed
\* since the Post's timestamp.
C12_FallbackRecordsResponse ==
    [][\A p \in PollIds, u \in Users, o \in OptionIds \ {<<>>} :
          \A post \in {x \in Range(quiz_posts) : x.poll_id = p} :
             (/\ p \notin DOMAIN active_quizzes
              /\ ResponsesOf(responses, u, post.question_id) = {}
              /\ HandlePollAnswer(p, u, o))
             => \E r \in responses' \ responses :
                   /\ r.user_id = u
                   /\ r.question_id = post.question_id
                   /\ r.group_id = post.group_id
                   /\ r.is_correct =
                         (IF CodePoints[o[1] + 2] = questions[post.question_id].correct_option
                          THEN 1 ELSE 0)
                   /\ r.time_taken = (now - post.posted_time.t) \div 2]_vars

\* ------------------------------------------------------------------ immediate posting
\* The question ids post_quiz_by_id is called with: those stored and one that is not.
QuestionIds == 1..next_qid

\* Both ways of posting: questions of one slot with every kind of target set, posted by
\* post_quiz or at once by post_quiz_by_id (one execution at a time), with sends that
\* succeed or fail, while time passes.
NextById ==
    \/ Tick
    \/ AddQuestion({"C"}, {"morning"}, {today}, {NULL}, TargetGroupValues)
    \/ StartPostQuiz("morning")
    \/ \E q \in QuestionIds : StartPostQuizById(q)
    \/ \E i \in 1..MaxTasks, ok \in BOOLEAN : SendBody(i, ok)
    \/ \E i \in 1..MaxTasks, ok \in BOOLEAN : SendPoll(i, ok)

SpecById == Init /\ [][NextById]_vars

\* ------------------------------------------------------------------ claims on both fan-outs
\* The executions under way.
Running == {tasks[i] : i \in {k \in DOMAIN tasks : tasks[k].pc # "idle"}}

\* C13: post_quiz_by_id marks the Question posted, with the single timestamp of its
\* fan-out, before it attempts any send; post_quiz marks it only after every resolved
\* group has been attempted.
C13_MarkedBeforeOrAfterFanOut ==
    /\ \A t \in Running :
          IF t.by_id
          THEN /\ questions[t.question_id].is_posted = 1
               /\ questions[t.question_id].posted_time = Text(t.posted_time)
               /\ \A k \in DOMAIN quiz_posts :
                     quiz_posts[k].poll_id \in Range(t.polls)
                        => quiz_posts[k].posted_time = questions[t.question_id].posted_time
          ELSE questions[t.question_id].is_posted = 0
    /\ (~last_run.by_id /\ last_run.question_id # NoQuestion) =>
          /\ questions[last_run.question_id].is_posted = 1
          /\ last_run.attempted = ConfiguredOf(last_run.groups)

\* A post_quiz_by_id execution is about to make its first send and its Question is
\* marked already, while a post_quiz execution has returned before.
C13_Witness ==
    /\ \E t \in Running : /\ t.by_id
                          /\ t.calls = 0
                          /\ t.pc = "send_body"
                          /\ questions[t.question_id].is_posted = 1
    /\ ~last_run.by_id
    /\ last_run.question_id # NoQuestion
    /\ last_run.calls > 0

\* C14: in post_quiz_by_id a failing send is raised again, so the groups after it are
\* not attempted; in post_quiz it is caught and never reaches the caller.
C14_FailureRaisedOrCaught ==
    last_run.question_id # NoQuestion =>
        IF last_run.by_id
        THEN /\ last_run.pc \in {"done", "raised"}
             /\ last_run.pc = "done" =>
                   /\ last_run.sent = last_run.attempted
                   /\ last_run.attempted = ConfiguredOf(last_run.groups)
             /\ last_run.pc = "raised" =>
                   /\ Len(last_run.attempted) = Len(last_run.sent) + 1
                   /\ last_run.sent = SubSeq(last_run.attempted, 1, Len(last_run.sent))
                   /\ last_run.attempted =
                         SubSeq(ConfiguredOf(last_run.groups), 1, Len(last_run.attempted))
        ELSE last_run.pc = "done"

\* A post_quiz_by_id execution for an 'all' Question ended with the exception of its
\* send to group1, and group2 was not attempted.
C14_Witness ==
    /\ last_run.by_id
    /\ last_run.pc = "raised"
    /\ last_run.groups = GROUP_CONFIGS
    /\ last_run.attempted = <<"group1">>
    /\ last_run.sent = <<>>

\* C15: with an explicit target set, keys that are not configured are skipped without
\* raising and without a send, and the configured keys are still attempted; with 'all',
\* exactly the configured keys are attempted.
C15_OnlyConfiguredGroupsAttempted ==
    \A t \in Running \cup {last_run} :
        t.question_id # NoQuestion =>
            LET tg == questions[t.question_id].target_groups
                keys == IF tg = ALL
                        THEN GROUP_CONFIGS
                        ELSE SelectSeq(tg, LAMBDA g : g \in Range(GROUP_CONFIGS)) IN
            /\ Range(t.attempted) \subseteq Range(GROUP_CONFIGS)
            /\ t.calls <= 2 * Len(t.attempted)
            /\ t.attempted = SubSeq(keys, 1, Len(t.attempted))
            /\ t.pc = "done" => t.attempted = keys

\* An execution for the target set [groupX, group1] has returned: it skipped groupX
\* and sent to group1.
C15_Witness ==
    /\ last_run.question_id # NoQuestion
    /\ last_run.pc = "done"
    /\ questions[last_run.question_id].target_groups = <<"groupX", "group1">>
    /\ last_run.attempted = <<"group1">>
    /\ last_run.sent = <<"group1">>

\* ------------------------------------------------------------------ reports
\* The questions answered and the name each user answers under.
BoardQuestions == {1, 2}

BoardName(u) == <<"user", u>>

\* An answer as (option index, seconds after the post).
BoardAnswers == {<<2, 10>>, <<2, 15>>, <<2, 20>>, <<0, 10>>}

\* The ranking: three users answer two questions of group1 on one day, quickly or
\* slowly, right or wrong; then the daily and weekly leaderboards are asked for.
NextBoard ==
    \/ \E u \in {101, 102, 103}, q \in BoardQuestions, a \in BoardAnswers :
          RecordAnswer(u, BoardName(u), q, a[1], a[2], 0, "group1")
    \/ \E period \in {"daily", "weekly"}, g \in {"", "group1"} :
          GetLeaderboard(period, 0, g)

SpecBoard == Init /\ [][NextBoard]_vars

\* The names a user is shown under: user 101 changes the name between answers.
BoardNames(u) == IF u = 101 THEN {BoardName(u), <<"renamed", u>>} ELSE {BoardName(u)}

\* The buckets: two users answer two questions in a group of theirs on either day, under
\* any of their names; then any leaderboard of any day and group is asked for.
NextBoardGroups ==
    \/ \E u \in Users, q \in BoardQuestions, a \in {<<2, 10>>, <<0, 20>>},
          d \in 0..1 :
          \E name \in BoardNames(u), g \in Membership[u] :
             RecordAnswer(u, name, q, a[1], a[2], d, g)
    \/ \E period \in {"daily", "weekly"}, d \in 0..1,
          g \in {""} \cup Range(GROUP_CONFIGS) :
          GetLeaderboard(period, d, g)

SpecBoardGroups == Init /\ [][NextBoardGroups]_vars

\* One user more than a leaderboard has room for.
BoardUsers == 101..(101 + LEADERBOARD_SIZE)

\* The cut: each user answers one question, right or wrong, each after a time of the
\* user's own; then the leaderboards are asked for.
NextBoardLimit ==
    \/ \E u \in BoardUsers, i \in {0, 2} :
          RecordAnswer(u, BoardName(u), 1, i, u - 100, 0, "group1")
    \/ \E period \in {"daily", "weekly"}, g \in {"", "group1"} :
          GetLeaderboard(period, 0, g)

SpecBoardLimit == Init /\ [][NextBoardLimit]_vars

\* ------------------------------------------------------------------ claims on leaderboards
\* The responses a leaderboard query is about: those of its date or week, and of its
\* group when it names one.
Bucket(b) ==
    {r \in responses :
        /\ IF b.period = "daily"
           THEN r.date = isoformat(b.day)
           ELSE r.week_number = get_week_number(b.day)
        /\ b.group_id # "" => r.group_id = b.group_id}

\* C16: every leaderboard, daily or weekly, global or per group, is ordered by
\* descending number of correct answers, ties by ascending summed seconds: users with
\* (2 correct, 40 s), (2 correct, 25 s) and (1 correct, 10 s) come second, first, third.
C16_OrderedByScoreThenTime ==
    \A k \in 1..(Len(board.rows) - 1) :
        \/ board.rows[k].score > board.rows[k + 1].score
        \/ /\ board.rows[k].score = board.rows[k + 1].score
           /\ board.rows[k].total_time <= board.rows[k + 1].total_time

\* User 101 has 2 correct answers in 40 s, user 102 has 2 in 25 s, user 103 has 1 in
\* 10 s, and the leaderboard is [102, 101, 103].
C16_Witness ==
    /\ Len(board.rows) = 3
    /\ [k \in 1..3 |-> <<board.rows[k].user_id, board.rows[k].score,
                         board.rows[k].total_time>>]
          = <<(<<102, 2, 25>>), (<<101, 2, 40>>), (<<103, 1, 10>>)>>

\* C17: in a leaderboard each user appears in at most one entry, whose score is the
\* number of the user's correct responses in the bucket and whose time is the sum of
\* their seconds, also when the user's name differs between the responses.
C17_OneEntryPerUser ==
    board.period # "none" =>
        \A k \in DOMAIN board.rows :
            LET e == board.rows[k]
                mine == {r \in Bucket(board) : r.user_id = e.user_id} IN
            /\ \A j \in DOMAIN board.rows : board.rows[j].user_id = e.user_id => j = k
            /\ e.score = Cardinality({r \in mine : r.is_correct = 1})
            /\ e.total_time = SUM(mine, "time_taken")

\* C18: the leaderboard of a group aggregates exactly the responses of the date or week
\* that carry the key of that group, responses given in other groups add nothing, and
\* a leaderboard query changes no stored state.
C18_GroupLeaderboardCountsOwnGroup ==
    /\ [](board.group_id # "" =>
            /\ \A k \in DOMAIN board.rows :
                  LET e == board.rows[k]
                      mine == {r \in Bucket(board) :
                                  r.user_id = e.user_id /\ r.username = e.username} IN
                  /\ mine # {}
                  /\ e.score = Cardinality({r \in mine : r.is_correct = 1})
                  /\ e.total_time = SUM(mine, "time_taken")
            /\ Len(board.rows) < LEADERBOARD_SIZE =>
                  {r.user_id : r \in Bucket(board)} =
                     {board.rows[k].user_id : k \in DOMAIN board.rows})
    /\ [][board' # board =>
             UNCHANGED <<questions, quiz_posts, responses, active_quizzes,
                         slots_config>>]_vars

\* The leaderboard of group1 was asked for while a user on it also has a correct
\* response of the same day in group2.
C18_Witness ==
    /\ board.group_id = "group1"
    /\ board.period = "daily"
    /\ \E k \in DOMAIN board.rows :
          /\ board.rows[k].score = 1
          /\ \E r \in responses : /\ r.user_id = board.rows[k].user_id
                                  /\ r.date = isoformat(board.day)
                                  /\ r.group_id = "group2"
                                  /\ r.is_correct = 1

\* C19: a leaderboard has at most LEADERBOARD_SIZE (5) entries; when more users
\* qualify, the entries returned are the first ones of the full ranking.
C19_AtMostLeaderboardSize ==
    board.period # "none" =>
        LET all == GroupBy(Bucket(board))
            got == Range(board.rows) IN
        /\ Len(board.rows) <= 5
        /\ Len(board.rows) = Min({5, Cardinality(all)})
        /\ Cardinality(got) = Len(board.rows)
        /\ got \subseteq all
        /\ \A e \in got, f \in all \ got :
              \/ e.score > f.score
              \/ e.score = f.score /\ e.total_time <= f.total_time

\* Six users qualify and the leaderboard has five entries.
C19_Witness ==
    /\ Cardinality({r.user_id : r \in Bucket(board)}) = 6
    /\ Len(board.rows) = 5
    /\ board.rows[1].score = 1
    /\ board.rows[5].score = 0

\* ------------------------------------------------------------------ claims on setup
\* C20: setup_scheduler registers one recurring daily job per active slot, at the hour
\* and minute of the slot, and in addition exactly one fixed daily reporting job, and
\* it stores the scheduler handle in the application context.
C20_SlotJobsAndOneReportJob ==
    (refreshed # NoCall) =>
        /\ scheduler
        /\ \A k \in DOMAIN refreshed.rows :
              Cardinality({j \in DOMAIN jobs :
                              /\ jobs[j].id = <<refreshed.rows[k].slot_name, "_quiz">>
                              /\ jobs[j].hour = refreshed.rows[k].hour
                              /\ jobs[j].minute = refreshed.rows[k].minute}) = 1
        /\ Cardinality({j \in DOMAIN jobs : jobs[j].id[2] # "_quiz"}) = 1

\* ------------------------------------------------------------------ replies that fail
\* The slot administration by one admin when the reply to the admin may raise (the
\* transport is down, the message cannot be edited).
NextSlotsReply ==
    \/ SetupScheduler
    \/ CmdEditslots(1)
    \/ \E action \in {"add", "edit", "delete", "close"} : HandleSlotAction(1, action)
    \/ \E text \in {"noon", "n00n"} : ReceiveSlotName(1, text)
    \/ \E text \in {"12", "24"} : ReceiveSlotHour(1, text)
    \/ \E text \in {"30", "60"}, replied \in BOOLEAN : ReceiveSlotMinute(1, text, replied)
    \/ \E data \in MenuData("edit_", conv[1].menu) : SelectSlotToEdit(1, data)
    \/ \E data \in MenuData("delete_", conv[1].menu), replied \in BOOLEAN :
          SelectSlotToDelete(1, data, replied)
    \/ CancelSlotEdit(1)

SpecSlotsReply == Init /\ [][NextSlotsReply]_vars

\* ------------------------------------------------------------------ claims on reconciliation
\* C21: after every successful slot add, slot time edit or slot deletion by an admin the
\* live slot jobs are those of the active slots of the Store by the time the handler
\* has finished, without a restart: a new slot has a job, an edited slot a job at the new
\* time only, a deleted slot none.
C21_JobsFollowTheStore ==
    scheduler =>
        /\ Len(jobs) = Cardinality(ActiveSlots)
        /\ {<<jobs[k].slot, jobs[k].hour, jobs[k].minute>> : k \in DOMAIN jobs} =
              {<<r.slot_name, r.hour, r.minute>> : r \in ActiveSlots}

\* ------------------------------------------------------------------ jobs that fire
\* The scheduler fires job k: post_slot_quiz calls post_quiz for the slot of the job.
FireJob(k) ==
    /\ scheduler
    /\ StartPostQuiz(jobs[k].slot)

\* A removal that would also cancel what the job has started.
remove_job_cancelling(ts) == [i \in DOMAIN ts |-> IdleTask]

\* scheduler.remove_job(job.id) takes the job out of the job store; the coroutine of an
\* execution that has started is not touched.
remove_job(ts) == ts

\* refresh_scheduler(application) is called while the table is as it is.
RefreshScheduler ==
    /\ scheduler
    /\ refresh_scheduler(slots_config)
    /\ tasks' = remove_job(tasks)
    /\ UNCHANGED <<now, today, questions, next_qid, quiz_posts, responses,
                   active_quizzes, next_poll, last_run, last_answer, finished>>
    /\ UNCHANGED <<slots_config, scheduler, conv, user_data>>
    /\ UNCHANGED <<report_vars, image_vars>>

\* Refreshes during fan-outs: the jobs of the slots fire, the sends succeed or fail
\* while time passes, and the scheduler is refreshed at any moment.
NextRefresh ==
    \/ Tick
    \/ SetupScheduler
    \/ AddQuestion({"C"}, QuestionSlots, {today}, {NULL}, {ALL})
    \/ \E k \in DOMAIN jobs : FireJob(k)
    \/ \E i \in 1..MaxTasks, ok \in BOOLEAN : SendBody(i, ok)
    \/ \E i \in 1..MaxTasks, ok \in BOOLEAN : SendPoll(i, ok)
    \/ RefreshScheduler

SpecRefresh == Init /\ [][NextRefresh]_vars

\* C22: when refresh_scheduler runs while the post_quiz of a slot job is suspended in
\* the middle of its fan-out, that execution is not dropped: it goes on to attempt its
\* remaining groups and marks its question posted; and after the refresh the slot has
\* exactly one live job.
C22_RefreshKeepsRunningExecution ==
    /\ \A q \in refreshed.running :
          \/ \E i \in DOMAIN tasks : tasks[i].pc # "idle" /\ tasks[i].question_id = q
          \/ /\ q \in finished
             /\ questions[q].is_posted = 1
             /\ last_run.question_id = q =>
                   last_run.attempted = ConfiguredOf(last_run.groups)
    /\ scheduler =>
          \A r \in ActiveSlots :
             Cardinality({k \in DOMAIN jobs : jobs[k].slot = r.slot_name}) = 1

\* The scheduler was refreshed after the send to group1 of a fan-out; the execution has
\* since sent to group2 and marked its question, and the slot has its one job.
C22_Witness ==
    /\ refreshed.running # {}
    /\ refreshed.repeat
    /\ last_run.question_id \in refreshed.running
    /\ last_run.pc = "done"
    /\ last_run.sent = GROUP_CONFIGS
    /\ questions[last_run.question_id].is_posted = 1
    /\ Cardinality({k \in DOMAIN jobs : jobs[k].slot = last_run.slot}) = 1

\* ------------------------------------------------------------------ the Store raises
\* post_quiz(context, slot) when db.get_next_unposted_question raises (line 30: the
\* database is locked, a column is missing, ...): the call is in no try block, so the
\* exception leaves post_quiz with nothing selected and nothing sent.
PostQuizStoreRaises(slot) ==
    /\ \A i \in DOMAIN tasks : tasks[i].pc = "idle"
    /\ last_run' = [NothingToPost(slot) EXCEPT !.pc = "raised"]
    /\ UNCHANGED <<now, today, questions, next_qid, quiz_posts, responses,
                   active_quizzes, next_poll, tasks, last_answer, finished>>
    /\ UNCHANGED <<slot_vars, report_vars, image_vars>>

\* The scheduler fires job k and the Store raises: post_slot_quiz awaits post_quiz in
\* no try block either, so the exception leaves the function of the job.
FireJobStoreRaises(k) ==
    /\ scheduler
    /\ PostQuizStoreRaises(jobs[k].slot)

\* The slot jobs: they fire one after the other, the Store answers or raises, the sends
\* succeed or fail.
NextJobs ==
    \/ SetupScheduler
    \/ AddQuestion({"C"}, QuestionSlots, {today}, {NULL}, {ALL})
    \/ \E k \in DOMAIN jobs : FireJob(k)
    \/ \E k \in DOMAIN jobs : FireJobStoreRaises(k)
    \/ \E i \in 1..MaxTasks, ok \in BOOLEAN : SendBody(i, ok)
    \/ \E i \in 1..MaxTasks, ok \in BOOLEAN : SendPoll(i, ok)

SpecJobs == Init /\ [][NextJobs]_vars

\* C23: no exception that the Store or the transport raises inside a scheduled slot job
\* leaves the body of the job: the job catches it, and the failure of one job leaves
\* every other job scheduled and runnable.
C23_NoExceptionLeavesTheJob ==
    /\ last_run.pc # "raised"
    /\ scheduler => Cardinality({jobs[k].slot : k \in DOMAIN jobs}) = Cardinality(ActiveSlots)

\* ------------------------------------------------------------------ claims on slot input
\* C24: add_slot with a name that, lower-cased, is the name of an existing row returns
\* -1 without raising and leaves slots_config as it is; the admin flow then makes no
\* scheduler refresh and the live jobs stay as they are.
C24_DuplicateSlotNameRejected ==
    /\ [](\A name \in {"morning", "Morning", "evening", "noon"} :
             (\E r \in Range(slots_config) : r.slot_name = lower(name)) =>
                /\ add_slot_result(slots_config, name, 12, 30) = -1
                /\ add_slot(slots_config, name, 12, 30) = slots_config)
    /\ [][\A a \in ADMIN_IDS :
             (/\ conv[a].state = "WAITING_SLOT_MINUTE"
              /\ \E r \in Range(slots_config) : r.slot_name = user_data[a].new_slot_name
              /\ conv'[a] # conv[a])
             => UNCHANGED <<slots_config, jobs, refreshed>>]_vars

\* An admin who typed ' Morning ' and an hour is asked for the minute while a slot
\* morning exists (active) and a slot noon exists (removed), and a valid minute ends the
\* conversation with the table as it is.
C24_Witness ==
    /\ scheduler
    /\ conv[1].state = "WAITING_SLOT_MINUTE"
    /\ user_data[1].new_slot_name = "morning"
    /\ \E r \in Range(slots_config) : r.slot_name = "noon" /\ r.is_active = 0
    /\ ENABLED (/\ ReceiveSlotMinute(1, "30", TRUE)
                /\ conv'[1].state = "END"
                /\ slots_config' = slots_config)

\* The lower-case alphabetic names among the texts of the model.
LowerAlphabetic == {"morning", "evening", "noon"}

\* C25: in every reachable state each slots_config row has a lower-case alphabetic name
\* that no other row has, an hour in 0..23 and a minute in 0..59; a name that is not
\* alphabetic, an hour outside 0..23 or a minute outside 0..59 is turned down before any
\* write to the Store: it is not even kept for the next step of the conversation.
C25_SlotRowsValid ==
    /\ \A k \in DOMAIN slots_config :
          /\ slots_config[k].slot_name \in LowerAlphabetic
          /\ \A j \in DOMAIN slots_config :
                slots_config[j].slot_name = slots_config[k].slot_name => j = k
          /\ slots_config[k].hour \in 0..23
          /\ slots_config[k].minute \in 0..59
    /\ \A k \in DOMAIN jobs : jobs[k].hour \in 0..23 /\ jobs[k].minute \in 0..59
    /\ \A a \in ADMIN_IDS :
          /\ user_data[a].new_slot_name \in LowerAlphabetic \cup {""}
          /\ user_data[a].slot_hour \in -1..23

\* The table holds a slot added at runtime and a slot whose time was edited, and an
\* admin who is asked for the minute is asked again after typing 60, with nothing
\* changed.
C25_Witness ==
    /\ \E r \in Range(slots_config) : r.slot_name = "noon" /\ r.hour = 12 /\ r.minute = 30
    /\ \E r \in Range(slots_config) : r.slot_name = "morning" /\ r.hour = 12 /\ r.minute = 12
    /\ conv[1].state = "WAITING_SLOT_MINUTE"
    /\ ENABLED (/\ ReceiveSlotMinute(1, "60", TRUE)
                /\ UNCHANGED <<slots_config, jobs, conv, user_data>>)

\* ------------------------------------------------------------------ runtime slots
\* A slot is added at runtime: the admin goes through the add flow, questions are stored
\* for any slot name, and the jobs of the slots fire and post.
NextRuntimeSlot ==
    \/ SetupScheduler
    \/ CmdEditslots(1)
    \/ HandleSlotAction(1, "add")
    \/ ReceiveSlotName(1, "noon")
    \/ ReceiveSlotHour(1, "12")
    \/ ReceiveSlotMinute(1, "30", TRUE)
    \/ AddQuestion({"C"}, SlotNames, {today}, {NULL}, {ALL})
    \/ \E k \in DOMAIN jobs : FireJob(k)
    \/ \E i \in 1..MaxTasks : SendBody(i, TRUE)
    \/ \E i \in 1..MaxTasks : SendPoll(i, TRUE)

SpecRuntimeSlot == Init /\ [][NextRuntimeSlot]_vars

\* C26: a question can be stored with, and selected for, any slot name of the slot
\* configuration, also one created at runtime by an admin; the job of such a slot then
\* selects and posts the questions of that slot name.
C26_QuestionsForAnyConfiguredSlot ==
    \A r \in ActiveSlots :
        next_qid <= MaxQuestions =>
            ENABLED AddQuestion({"C"}, {r.slot_name}, {today}, {NULL}, {ALL})

\* ------------------------------------------------------------------ claims on the post timestamp
\* C27: all quiz_posts records that one fan-out (one post_quiz or post_quiz_by_id
\* execution) creates carry the same posted_time, the one that execution writes on the
\* Question, however many groups it sends to and whatever time passes between the sends.
C27_OneTimestampPerFanOut ==
    /\ \A t \in Running \cup {last_run} :
          \A k \in DOMAIN quiz_posts :
              quiz_posts[k].poll_id \in Range(t.polls) =>
                 /\ quiz_posts[k].question_id = t.question_id
                 /\ quiz_posts[k].posted_time = Text(t.posted_time)
    /\ (/\ last_run.question_id # NoQuestion
        /\ \A t \in Running : t.question_id # last_run.question_id)
       => questions[last_run.question_id].posted_time = Text(last_run.posted_time)

\* A fan-out that started at time 0 has sent to both groups while the clock moved on to 2,
\* and has marked its Question.
C27_Witness ==
    /\ Running = {}
    /\ last_run.pc = "done"
    /\ last_run.posted_time = 0
    /\ now = 2
    /\ Len(last_run.polls) = 2
    /\ \A k \in DOMAIN quiz_posts :
          quiz_posts[k].poll_id \in Range(last_run.polls) =>
             quiz_posts[k].posted_time = Text(0)
    /\ questions[last_run.question_id].posted_time = Text(0)

\* ------------------------------------------------------------------ persisting a post fails
\* A cache entry that would be written although the Post was not persisted.
PersistFailed_cached(i, t, poll_id) ==
    /\ quiz_posts' = quiz_posts
    /\ active_quizzes' =
          [p \in DOMAIN active_quizzes \cup {poll_id} |->
              IF p = poll_id THEN CacheEntry(t, t.groups[t.idx]) ELSE active_quizzes[p]]
    /\ Raised(i, t)

\* post_to_group, lines 158-175, when db.create_quiz_post raises (the database is locked,
\* ...): the INSERT is not committed, and the exception leaves post_to_group before the
\* lines that store the cache entry are reached.
PersistFailed(i, t, poll_id) ==
    /\ quiz_posts' = quiz_posts
    /\ active_quizzes' = active_quizzes
    /\ Raised(i, t)

\* post_to_group, lines 147-177: the awaited send_poll returns a poll with a fresh id and
\* the Store raises when the post is recorded.
SendPollStoreRaises(i) ==
    /\ tasks[i].pc = "send_poll"
    /\ next_poll' = next_poll + 1
    /\ PersistFailed(i, [tasks[i] EXCEPT !.calls = tasks[i].calls + 1], next_poll)
    /\ UNCHANGED <<now, today, next_qid, responses, last_answer>>
    /\ UNCHANGED <<slot_vars, report_vars, image_vars>>

\* Fan-outs of the slots while the clock runs, whose sends succeed and whose Post is
\* persisted or not.
NextPersist ==
    \/ Tick
    \/ AddQuestion({"C"}, QuestionSlots, {today}, {NULL}, {ALL})
    \/ \E slot \in QuestionSlots : StartPostQuiz(slot)
    \/ \E i \in 1..MaxTasks : SendBody(i, TRUE)
    \/ \E i \in 1..MaxTasks : SendPoll(i, TRUE)
    \/ \E i \in 1..MaxTasks : SendPollStoreRaises(i)

SpecPersist == Init /\ [][NextPersist]_vars

\* C28: in every reachable state each poll id in active_quizzes also has a quiz_posts
\* record with the same question id, group key and post timestamp: the Post is persisted
\* before the cache entry is added, and no cache entry is added when persisting fails.
C28_CachedPollHasPost ==
    \A p \in DOMAIN active_quizzes :
        \E k \in DOMAIN quiz_posts :
            /\ quiz_posts[k].poll_id = p
            /\ quiz_posts[k].question_id = active_quizzes[p].question_id
            /\ quiz_posts[k].group_id = active_quizzes[p].group_id
            /\ quiz_posts[k].posted_time.t = active_quizzes[p].posted_time.t

\* One fan-out has persisted and cached the poll of its first group, and persisting the
\* poll of its second group failed: that poll was sent and is in neither place.
C28_Witness ==
    /\ Running = {}
    /\ Len(last_run.groups) = 2
    /\ Len(last_run.polls) = 1
    /\ last_run.calls = 4
    /\ last_run.polls[1] \in DOMAIN active_quizzes
    /\ next_poll = last_run.polls[1] + 2
    /\ (next_poll - 1) \notin DOMAIN active_quizzes
    /\ \A k \in DOMAIN quiz_posts : quiz_posts[k].poll_id # next_poll - 1

\* ------------------------------------------------------------------ questions with an image
\* db.add_question with an image: the row gets the given file id and local path.
AddImageQuestion(image_file_id, image_local_path) ==
    /\ next_qid <= MaxQuestions
    /\ add_question("C", "morning", today, NULL, ALL)
    /\ images' = [q \in DOMAIN images \cup {next_qid} |->
                     IF q = next_qid
                     THEN [NoImage EXCEPT !.image_file_id = image_file_id,
                                          !.image_local_path = image_local_path]
                     ELSE images[q]]
    /\ UNCHANGED <<now, today, quiz_posts, responses,
                   active_quizzes, next_poll, tasks, last_run, last_answer, finished>>
    /\ UNCHANGED <<slot_vars, report_vars>>

\* Questions with a local image and no file id are stored, posted by their slot and sent
\* again by id; a send of the body succeeds or fails.
NextImage ==
    \/ AddImageQuestion(NULL, <<"path">>)
    \/ StartPostQuiz("morning")
    \/ \E q \in QuestionIds : StartPostQuizById(q)
    \/ \E i \in 1..MaxTasks, ok \in BOOLEAN : SendBody(i, ok)
    \/ \E i \in 1..MaxTasks : SendPoll(i, TRUE)

SpecImage == Init /\ [][NextImage]_vars

\* C29: for a question with a local image and no stored file id, the file id the
\* transport issues is written to the Question once, by the first successful photo send;
\* the sends to the later groups of the same fan-out and every later send use that file
\* id and do not upload the local file again.
C29_FileIdCapturedOnce ==
    \A q \in DOMAIN images :
        images[q].image_local_path # NULL =>
            /\ images[q].uploads <= 1
            /\ images[q].writes <= 1

\* ------------------------------------------------------------------ the wall clock is set back
\* get_current_time() is datetime.now(): the wall clock of the host, which a time
\* synchronisation can set back by k ticks.
ClockSetBack(k) ==
    /\ k \in 1..now
    /\ now' = now - k
    /\ UNCHANGED <<today, questions, next_qid, quiz_posts, responses,
                   active_quizzes, next_poll, tasks, last_run, last_answer, finished>>
    /\ UNCHANGED <<slot_vars, report_vars, image_vars>>

\* Questions of the morning slot are posted, and answered by one user, while the clock
\* runs and is set back.
NextSkew ==
    \/ Tick
    \/ \E k \in 1..MaxNow : ClockSetBack(k)
    \/ AddQuestion({"C"}, {"morning"}, {today}, {NULL}, {ALL})
    \/ StartPostQuiz("morning")
    \/ \E i \in 1..MaxTasks : SendBody(i, TRUE)
    \/ \E i \in 1..MaxTasks : SendPoll(i, TRUE)
    \/ \E p \in PollIds : HandlePollAnswer(p, 101, <<2>>)

SpecSkew == Init /\ [][NextSkew]_vars

NextWeek ==
    \/ \E u \in Users, q \in BoardQuestions, day \in 0..MaxDay + 2 :
          RecordAnswer(u, BoardName(u), q, 2, 10, day, "group1")
    \/ \E day \in 0..MaxDay + 2 : GetLeaderboard("weekly", day, "")

SpecWeek == Init /\ [][NextWeek]_vars

\* The ISO year and ISO week of day number n: 2024-12-29 is the Sunday of week 52 of
\* 2024, and 2024-12-30 the Monday of week 1 of 2025.
IsoYearWeek(n) == IF n = 0 THEN <<2024, 52>> ELSE <<2025, ((n - 1) \div 7) + 1>>

\* C31: get_week_number gives two dates the same week bucket exactly when they lie in
\* the same ISO week, also around a year boundary: two responses carry the same
\* week_number exactly when their dates have the same ISO year and ISO week.
C31_SameBucketIffSameIsoWeek ==
    \A r1, r2 \in responses :
        (r1.week_number = r2.week_number) <=>
            (IsoYearWeek(fromisoformat(r1.date)) = IsoYearWeek(fromisoformat(r2.date)))

\* ------------------------------------------------------------------ overlapping fan-outs
\* Questions of the morning slot for all groups; post_quiz is called for the slot while
\* no execution or another execution is under way, and every send succeeds.
NextOverlap ==
    \/ AddQuestion({"C"}, {"morning"}, {today}, {NULL}, {ALL})
    \/ StartPostQuiz("morning")
    \/ StartPostQuizOverlapping("morning")
    \/ \E i \in 1..MaxTasks : SendBody(i, TRUE)
    \/ \E i \in 1..MaxTasks : SendPoll(i, TRUE)

SpecOverlap == Init /\ [][NextOverlap]_vars

\* C32: two post_quiz executions for the same slot whose fan-outs overlap never select
\* the same question: no question has two quiz_posts records for the same group, and no
\* two executions under way hold the same question.
C32_OverlappingFanOutsSelectDifferentQuestions ==
    /\ \A j, k \in DOMAIN quiz_posts :
          (/\ quiz_posts[j].question_id = quiz_posts[k].question_id
           /\ quiz_posts[j].group_id = quiz_posts[k].group_id) => j = k
    /\ \A i, j \in DOMAIN tasks :
          (/\ tasks[i].pc # "idle"
           /\ tasks[j].pc # "idle"
           /\ tasks[i].question_id = tasks[j].question_id) => i = j

\* C33: repeated post_quiz_by_id calls for one question id broadcast the question to each
\* target group at most once: a call made when the question is already marked posted
\* (it has posts of an earlier execution) makes no send and creates no quiz_posts record.
\* Stated of the execution under way, or of the last one when none is.
C33_ByIdSendsNothingWhenPosted ==
    \A t \in (IF Running # {} THEN Running ELSE {last_run}) :
        (/\ t.by_id
         /\ t.question_id # NoQuestion
         /\ \E k \in DOMAIN quiz_posts :
               /\ quiz_posts[k].question_id = t.question_id
               /\ quiz_posts[k].poll_id \notin Range(t.polls))
        => /\ t.calls = 0
           /\ t.polls = <<>>

\* C34: in every reachable state each question marked posted has at least one quiz_posts
\* record: a fan-out whose sends all fail, or whose target set names no configured
\* group, leaves the question unposted and eligible.
C34_PostedQuestionHasPost ==
    \A q \in DOMAIN questions :
        questions[q].is_posted = 1 =>
            \E k \in DOMAIN quiz_posts : quiz_posts[k].question_id = q

\* ------------------------------------------------------------------ questions edited and deleted
\* handle_poll_answer, lines 198-214: the correlation record built from quiz_posts joined
\* to questions; the empty set when there is no post or the question is gone.
store_quiz_info(poll_id) ==
    {[question_id |-> post.question_id,
      posted_time |-> post.posted_time,
      correct_option |-> questions[post.question_id].correct_option,
      group_id |-> post.group_id] :
         post \in {r \in get_post_by_poll_id(poll_id) : r.question_id \in DOMAIN questions}}

\* update_quiz: UPDATE questions SET ..., correct_option = ? WHERE question_id = ?  The
\* cache is not touched.
UpdateQuiz(quiz_id, correct_option) ==
    /\ quiz_id \in DOMAIN questions
    /\ questions' = [questions EXCEPT ![quiz_id].correct_option = correct_option]
    /\ UNCHANGED <<now, today, next_qid, quiz_posts, responses, active_quizzes,
                   next_poll, tasks, last_run, last_answer, finished>>
    /\ UNCHANGED <<slot_vars, report_vars, image_vars>>

\* confirm_quiz_deletion: DELETE FROM questions WHERE question_id = ?  No connection
\* turns foreign keys on, so the row goes while its posts stay; the cache is not touched.
ConfirmQuizDeletion(quiz_id) ==
    /\ quiz_id \in DOMAIN questions
    /\ questions' = [q \in DOMAIN questions \ {quiz_id} |-> questions[q]]
    /\ images' = [q \in DOMAIN images \ {quiz_id} |-> images[q]]
    /\ UNCHANGED <<now, today, next_qid, quiz_posts, responses, active_quizzes,
                   next_poll, tasks, last_run, last_answer, finished>>
    /\ UNCHANGED <<slot_vars, report_vars>>

\* Questions are posted to their groups; between the fan-outs an admin changes the
\* correct option of a question or deletes a question.
NextEdit ==
    \/ AddQuestion({"C"}, {"morning"}, {today}, {NULL}, {ALL})
    \/ StartPostQuiz("morning")
    \/ \E i \in 1..MaxTasks : SendBody(i, TRUE)
    \/ \E i \in 1..MaxTasks : SendPoll(i, TRUE)
    \/ \E q \in QuestionIds, c \in {"A", "C"} : UpdateQuiz(q, c)
    \/ \E q \in QuestionIds :
          /\ \A i \in DOMAIN tasks : tasks[i].pc = "idle"
          /\ ConfirmQuizDeletion(q)

SpecEdit == Init /\ [][NextEdit]_vars

\* C35: for every poll id present in the cache and in quiz_posts, the cache gives the
\* same question id, correct option and group key as the Store (the Post joined to its
\* Question), also after an admin has edited or deleted the question.
C35_CacheAgreesWithStore ==
    \A p \in DOMAIN active_quizzes :
        get_post_by_poll_id(p) # {} =>
            {<<i.question_id, i.correct_option, i.group_id>> : i \in store_quiz_info(p)} =
               {<<active_quizzes[p].question_id, active_quizzes[p].correct_option,
                  active_quizzes[p].group_id>>}

\* ------------------------------------------------------------------ draining a slot
\* Questions of the morning slot with any creation date, scheduled date and target set;
\* the days pass, the job of the slot fires, the sends succeed or fail.
NextDrain ==
    \/ Midnight
    \/ AddQuestion({"C"}, {"morning"}, 0..MaxDay, ScheduledDateValues, TargetGroupValues)
    \/ StartPostQuiz("morning")
    \/ \E i \in 1..MaxTasks, ok \in BOOLEAN : SendBody(i, ok)
    \/ \E i \in 1..MaxTasks, ok \in BOOLEAN : SendPoll(i, ok)

\* The job of the slot keeps firing (its cron trigger comes every day), and an awaited
\* send returns or raises in the end.
SpecDrain ==
    /\ Init
    /\ [][NextDrain]_vars
    /\ SF_vars(StartPostQuiz("morning"))
    /\ WF_vars(\E i \in 1..MaxTasks, ok \in BOOLEAN : SendBody(i, ok))
    /\ WF_vars(\E i \in 1..MaxTasks, ok \in BOOLEAN : SendPoll(i, ok))

\* C36: a slot with unposted eligible questions is drained: while the job of the slot
\* keeps firing, every unposted question of the slot with no scheduled date or a
\* scheduled date on or before today is eventually marked posted, whatever questions
\* precede it and whatever their target groups are.
C36_SlotIsDrained ==
    \A q \in 1..MaxQuestions :
        (q \in Eligible("morning")) ~>
            (q \in DOMAIN questions /\ questions[q].is_posted = 1)

\* The second question has been selected and marked posted after a first question whose
\* target set names no configured group.
C36_Witness ==
    /\ DOMAIN questions = {1, 2}
    /\ questions[1].target_groups = <<UnknownGroup>>
    /\ questions[1].is_posted = 1
    /\ questions[2].is_posted = 1
    /\ last_run.question_id = 2
    /\ last_run.pc = "done"

\* C37: after delete_slot has deactivated a slot, add_slot with the same name succeeds and
\* yields an active slot of that name with the new time; add_slot returns -1 only when an
\* active slot of that name exists.
C37_RemovedSlotCanBeAddedAgain ==
    \A slot_name \in SlotNames :
        (\A r \in Range(slots_config) : r.slot_name = slot_name => r.is_active = 0) =>
            /\ add_slot_result(slots_config, slot_name, 12, 30) # -1
            /\ \E r \in Range(add_slot(slots_config, slot_name, 12, 30)) :
                  /\ r.slot_name = slot_name
                  /\ r.is_active = 1
                  /\ r.hour = 12
                  /\ r.minute = 30

\* ------------------------------------------------------------------ surprise quiz
\* send_surprise_quiz, lines 1221-1232, up to the first await of post_quiz: the slot is
\* the first active one; with no active slot only a message is sent.
SendSurpriseQuiz ==
    LET slots == get_all_slots(slots_config, TRUE) IN
    IF slots = <<>>
    THEN /\ \A i \in DOMAIN tasks : tasks[i].pc = "idle"
         /\ UNCHANGED vars
    ELSE StartPostQuiz(slots[1].slot_name)

\* The value `await post_quiz(...)` gives back: post_quiz ends in a bare return (line 34)
\* or runs off its end (line 75), so the value is None whatever the execution did.
post_quiz_value(run) == "None"

\* Python's truth value of what post_quiz returns: None is false.
truthy(value) == value = "True"

\* send_surprise_quiz, lines 1234-1242: the message edited into the chat.
surprise_reply(run) ==
    IF truthy(post_quiz_value(run)) THEN "Surprise Quiz Posted"
    ELSE "No unposted quizzes available"

\* Questions of both slots; an admin asks for surprise quizzes one after the other, and
\* the sends succeed or fail.
NextSurprise ==
    \/ AddQuestion({"C"}, QuestionSlots, {today}, {NULL}, {ALL})
    \/ SendSurpriseQuiz
    \/ \E i \in 1..MaxTasks, ok \in BOOLEAN : SendBody(i, ok)
    \/ \E i \in 1..MaxTasks, ok \in BOOLEAN : SendPoll(i, ok)

SpecSurprise == Init /\ [][NextSurprise]_vars

\* C38: send_surprise_quiz reports 'Surprise Quiz Posted' exactly when post_quiz selected
\* and posted a question of the first active slot, and 'No unposted quizzes available'
\* exactly when that slot had no eligible question.
C38_SurpriseReplyTellsWhatHappened ==
    last_run.pc = "done" =>
        /\ (surprise_reply(last_run) = "Surprise Quiz Posted") <=>
              (last_run.question_id # NoQuestion /\ last_run.sent # <<>>)
        /\ (surprise_reply(last_run) = "No unposted quizzes available") <=>
              (last_run.question_id = NoQuestion)

\* ------------------------------------------------------------------ who may administer
\* A user whose id is not in config.ADMIN_IDS.
Outsiders == {7}

\* admin_only: the decorated handler runs for a user of ADMIN_IDS; anyone else gets the
\* admin-only message and nothing else happens.
admin_only(u, handler) == IF u \in ADMIN_IDS THEN handler ELSE UNCHANGED vars

\* The command /editslots (cmd_editslots is decorated with @admin_only) from user u.
CmdEditslotsFrom(u) == admin_only(u, CmdEditslots(u))

\* A callback query with data confirm_delete_<quiz_id> from user u: bot.py registers
\* confirm_quiz_deletion for the pattern outside every conversation, and the handler is
\* not decorated and never looks at the user.
CallbackConfirmDelete(u, quiz_id) ==
    /\ \A i \in DOMAIN tasks : tasks[i].pc = "idle"
    /\ ConfirmQuizDeletion(quiz_id)

\* A callback query with data slot_surprise from user u: bot.py registers
\* handle_slot_action for ^slot_ outside the conversation as well, and neither it nor
\* send_surprise_quiz looks at the user.
CallbackSlotSurprise(u) == SendSurpriseQuiz

\* Questions are stored; a user outside the allow-list sends the command and the two
\* callback queries; the sends of a fan-out succeed.
NextOutsider ==
    \/ AddQuestion({"C"}, QuestionSlots, {today}, {NULL}, {ALL})
    \/ \E u \in Outsiders : CmdEditslotsFrom(u)
    \/ \E u \in Outsiders, q \in QuestionIds : CallbackConfirmDelete(u, q)
    \/ \E u \in Outsiders : CallbackSlotSurprise(u)
    \/ \E i \in 1..MaxTasks : SendBody(i, TRUE)
    \/ \E i \in 1..MaxTasks : SendPoll(i, TRUE)

SpecOutsider == Init /\ [][NextOutsider]_vars

\* C39: no administrator operation that changes state takes effect for a user who is not
\* in the allow-list, whether it comes as a command or as a button callback: where only
\* such users make requests, no question is ever deleted or posted, and the slots and
\* the jobs stay as they are.
C39_OutsidersChangeNothing ==
    /\ \A q \in 1..(next_qid - 1) : q \in DOMAIN questions /\ questions[q].is_posted = 0
    /\ quiz_posts = <<>>
    /\ \A i \in DOMAIN tasks : tasks[i].pc = "idle"
    /\ slots_config = DefaultSlots
    /\ jobs = <<>>

\* C40: an answer event with an empty list of selected options (a retracted vote) inserts
\* no Response and changes no state, and a Response already stored for that user and
\* question is kept as it is: the step that handles it leaves every table, the cache and
\* the executions unchanged.
C40_RetractionChangesNothing ==
    [][(last_answer' # last_answer /\ last_answer'.result = "retracted") =>
          UNCHANGED <<now, today, questions, next_qid, quiz_posts, responses,
                      active_quizzes, next_poll, tasks, last_run, finished,
                      slot_vars, report_vars, image_vars>>]_vars

\* User 101 has retracted the vote on a question for which the user's Response is stored.
C40_Witness ==
    /\ last_answer.result = "retracted"
    /\ last_answer.user_id = 101
    /\ \E r \in responses :
          /\ r.user_id = 101
          /\ r.question_id = last_answer.question_id
          /\ r.selected_option = "C"

====
